---- MODULE Spec2Model ----
(***************************************************************************)
(* Receipt worker: the queue-driven CSV import pipeline.                   *)
(*                                                                         *)
(* One import job is followed from import/start through handleParseCsv    *)
(* and the self-requeuing handleProcessRows.  Every awaited D1, R2, queue *)
(* or HubSpot call of a handler is one step, so that an invocation can    *)
(* abort between any two of them and two invocations can interleave.      *)
(* An aborted invocation is the handler throwing: the queue consumer      *)
(* answers with msg.retry().  Statements themselves take effect or throw. *)
(***************************************************************************)
EXTENDS Integers, Sequences, FiniteSets, TLC

\* ---------------------------------------------------------------------
\* Bounds of the model
\* ---------------------------------------------------------------------
MaxRows == 4
MaxDups == 1
MaxCrashes == 1
MaxConcRows == 1
MaxRedeliverRows == 2
MaxLiveRows == 3
MaxFaultRows == 3
MaxUpserts == 3
MaxContinueRows == 20
MaxCallers == 2
MaxFieldLen == 2

\* ---------------------------------------------------------------------
\* Program constants
\* ---------------------------------------------------------------------
BATCH == 3
\* import/continue: Directory calls (GET and PATCH) allowed per request
HS_LIMIT == 35

NULL == "null"
\* null where the value is otherwise a number (a year, an amount, a row_index)
NoNum == -99999999
Procs == {1, 2}
MsgTypes == {"parse_csv", "process_rows"}
Members == {"m1", "m2"}
HsOutcomes == {"fail", "noemail", "ok"}
ConcOutcomes == HsOutcomes
\* "fail" is the not-found answer; "transient" is a network exception or a
\* non-success answer that is not a not-found
AllOutcomes == HsOutcomes \cup {"transient"}
\* what else the environment may do to an invocation
Faults == {"patch_failed", "template_not_found"}

Min(a, b) == IF a < b THEN a ELSE b
Max(a, b) == IF a > b THEN a ELSE b
SetMin(S) == CHOOSE x \in S : \A y \in S : x <= y

\* ---------------------------------------------------------------------
\* Pure helpers of the worker
\* ---------------------------------------------------------------------
\* normYear: an integer in 2000..2100, else null.  Year cells are the
\* tokens "2024" (parses to 2024) and "" (does not parse).
normYear(v) == IF v = "2024" THEN 2024 ELSE NoNum

\* parseMoneyToCents on the amount cells used here.
parseMoneyToCents(v) == IF v = "100" THEN 10000 ELSE NoNum

\* import/start: year peeked from the first data row, else last year.
DefaultYear == 2025
PeekYear(data) ==
  IF Len(data) > 0 /\ normYear(data[1].year) # NoNum
    THEN normYear(data[1].year) ELSE DefaultYear

\* handleProcessRows: year of a row, falling back to the job's year.
RowYear(r, jobYear) == IF normYear(r.year) # NoNum THEN normYear(r.year) ELSE jobYear

\* handleProcessRows: the invalid_row test.
RowInvalid(r, jobYear) ==
  \/ r.member_id = ""
  \/ r.branch = ""
  \/ parseMoneyToCents(r.amount) = NoNum
  \/ RowYear(r, jobYear) = NoNum

PdfKey(member_id, year) == <<"receipts", member_id, year>>
CsvKey == <<"uploads">>

\* The decoded data rows of an uploaded CSV: every length up to a bound of
\* one of three files.  In "mixed" every third row, from the second on, has no
\* member_id and the others alternate between two members, so that rows 1
\* and 3 share their (year, member_id); in "alternate" every row is valid.
CsvRow(m) == [member_id |-> m, branch |-> "b", amount |-> "100", year |-> "2024"]
CsvMember(shape, k) ==
  IF shape = "mixed" /\ k % 3 = 2 THEN ""
  ELSE IF k % 2 = 1 THEN "m1" ELSE "m2"
\* in "faulty" every third row, from the second on, has a year cell that does
\* not parse, and every third row, from the third on, an amount that does not
CsvYear(shape, k) == IF shape = "faulty" /\ k % 3 = 2 THEN "" ELSE "2024"
CsvAmount(shape, k) == IF shape = "faulty" /\ k % 3 = 0 THEN "x" ELSE "100"
CsvCells(shape, k) ==
  [CsvRow(CsvMember(shape, k)) EXCEPT !.year = CsvYear(shape, k),
                                      !.amount = CsvAmount(shape, k)]
CsvsUpTo(shape, maxLen) ==
  {[k \in 1..n |-> CsvCells(shape, k)] : n \in 0..maxLen}
Csvs == CsvsUpTo("mixed", MaxRows)
LiveCsvs == CsvsUpTo("mixed", MaxLiveRows)
RedeliverCsvs == CsvsUpTo("mixed", MaxRedeliverRows)
ConcCsvs == CsvsUpTo("alternate", MaxConcRows)
FaultCsvs == CsvsUpTo("faulty", MaxFaultRows)

VARIABLES
  csv,        \* decoded data rows of the uploaded object uploads/{job_id}.csv
  job,        \* the receipt_import_job record of the job
  rows,       \* receipt_import_row of the job: rows[i+1] has row_index i
  receipts,   \* receipt_annual: a set of records
  bucket,     \* RECEIPTS_BUCKET: the set of keys that hold an object
  queue,      \* IMPORT_Q: number of waiting messages of each type
  pc,         \* position of each queue-consumer invocation
  loc,        \* locals of each invocation
  hsGets,     \* per row_index: Directory lookups made for the row
  puts,       \* per row_index: artifact objects written for the row
  counted,    \* per row_index: times the row was added to ok_rows/ng_rows
  lastOut,    \* per row_index: outcome of the latest lookup for the row
  overlap,    \* row_indexes claimed by an invocation while another held them
  sent,       \* message types sent so far
  requeues,   \* process_rows messages sent by handleProcessRows
  dups,       \* duplicate deliveries so far
  crashes,    \* aborted invocations so far
  earlyReturns, \* handleProcessRows invocations that returned at the DONE guard
  patches,    \* per row_index: tag write-backs (PATCH) attempted for the row
  patchFails, \* row_indexes whose latest write-back failed
  genFails,   \* invocations that generateReceiptPdf ended by throwing
  lastRow,    \* row_index of the row the loop took up most recently, else -1
  upserts,    \* upsertAnnual calls applied directly to receipt_annual
  cont,       \* locals of the import/continue request
  gen,        \* position of each generateReceiptPdf call in flight
  tmplCache,  \* module-level _tmplCache: the number of the read it holds, else 0
  fontCache,  \* module-level _fontCache: the number of the read it holds, else 0
  fetches,    \* Object Store reads of the template and of the font so far
  sheet,      \* the lines and fields an uploaded CSV text was written from
  text,       \* the uploaded CSV text: a sequence of characters
  decoded,    \* what parseCsv returned for text, once it has run
  start,      \* position of the import/start request
  cons,       \* the queue consumer's walk through a delivered batch
  mail        \* the bulk email job and the receipt records it mails

stores == <<job, rows, receipts, bucket>>
probes == <<patches, patchFails, genFails, lastRow>>
\* state of the parts of the worker that the queue pipeline does not touch
side == <<start, cons, mail>>
aux == <<upserts, cont, gen, tmplCache, fontCache, fetches, sheet, text, decoded, side>>
ghosts == <<hsGets, puts, counted, lastOut, overlap, sent, requeues, dups, crashes,
            earlyReturns, probes>>
vars == <<csv, job, rows, receipts, bucket, queue, pc, loc,
          hsGets, puts, counted, lastOut, overlap, sent, requeues, dups, crashes,
          earlyReturns, patches, patchFails, genFails, lastRow,
          upserts, cont, gen, tmplCache, fontCache, fetches, sheet, text, decoded,
          start, cons, mail>>

\* every row_index a job of any of the specifications can have
RowIdx ==
  0..(Max(Max(Max(MaxRows, MaxLiveRows), Max(MaxConcRows, MaxRedeliverRows)),
          MaxFaultRows) - 1)

NoJob == [status |-> "NONE", phase |-> "NONE", year |-> 0, total_rows |-> 0,
          next_index |-> 0, processed_rows |-> 0, ok_rows |-> 0, ng_rows |-> 0]

Idle == [type |-> "none", total |-> 0, next_index |-> 0, year |-> 0,
         list |-> <<>>, i |-> 1, ok |-> 0, ng |-> 0, maxRowIndex |-> 0,
         done |-> <<>>, left |-> 0]

InitPipeline ==
  /\ csv = <<>>
  /\ job = NoJob
  /\ rows = <<>>
  /\ receipts = {}
  /\ bucket = {}
  /\ queue = [t \in MsgTypes |-> 0]
  /\ pc = [p \in Procs |-> "idle"]
  /\ loc = [p \in Procs |-> Idle]
  /\ hsGets = [i \in RowIdx |-> 0]
  /\ puts = [i \in RowIdx |-> 0]
  /\ counted = [i \in RowIdx |-> 0]
  /\ lastOut = [i \in RowIdx |-> "none"]
  /\ overlap = {}
  /\ sent = {}
  /\ requeues = 0
  /\ dups = 0
  /\ crashes = 0
  /\ earlyReturns = 0
  /\ patches = [i \in RowIdx |-> 0]
  /\ patchFails = {}
  /\ genFails = 0
  /\ lastRow = -1

\* generateReceiptPdf calls that can be in flight in one isolate: the queue
\* consumer and request handlers interleave at every await
Callers == 1..MaxCallers
GenIdle == [pc |-> "idle", obj |-> 0]
\* let _tmplCache = null: reads are numbered from 1
Unloaded == 0
ContIdle == [pc |-> "idle", dir |-> "none", start |-> 0, targetEnd |-> 0, i |-> 0, hsUsed |-> 0,
             ok |-> 0, ng |-> 0, processed |-> 0, hsCache |-> <<>>,
             calls |-> 0, late |-> FALSE, capped |-> -1, aborts |-> 0]

InitUpsert == upserts = 0
InitContinue == cont = ContIdle
InitCache ==
  /\ gen = [c \in Callers |-> GenIdle]
  /\ tmplCache = Unloaded
  /\ fontCache = Unloaded
  /\ fetches = [tmpl |-> 0, font |-> 0]
NotDecoded == [done |-> FALSE, rows |-> <<>>]
NoSheet == [eol |-> <<"\n">>, lines |-> <<>>]
InitCsv == sheet = NoSheet /\ text = <<>> /\ decoded = NotDecoded
\* no batch delivered yet
ConsIdle == [msgs |-> <<>>, i |-> 1, marks |-> <<>>, busy |-> FALSE, thrown |-> 0]
\* no email job yet
NoMail == [status |-> "NONE", total_targets |-> 0, next_index |-> 0,
           sent_ok |-> 0, sent_ng |-> 0, annual |-> <<>>, targets |-> {},
           tried |-> {}, answer |-> "none", sends |-> 0]
InitSide == start = "idle" /\ cons = ConsIdle /\ mail = NoMail

Init == InitPipeline /\ InitUpsert /\ InitContinue /\ InitCache /\ InitCsv /\ InitSide

\* ---------------------------------------------------------------------
\* D1 / R2 statements
\* ---------------------------------------------------------------------
\* INSERT INTO receipt_import_job ... (0,0,0,0,0,'RUNNING'); phase='PARSING'
InsertJob(year) ==
  [status |-> "RUNNING", phase |-> "PARSING", year |-> year, total_rows |-> 0,
   next_index |-> 0, processed_rows |-> 0, ok_rows |-> 0, ng_rows |-> 0]

\* the UPDATE of handleParseCsv without total_rows=?
ParseResetJobKeepTotal(j, total) ==
  [j EXCEPT !.next_index = 0, !.processed_rows = 0, !.ok_rows = 0, !.ng_rows = 0,
            !.status = "RUNNING", !.phase = "PROCESSING"]

\* handleParseCsv: UPDATE ... SET total_rows=?, next_index=0, ..., status='RUNNING';
\* then phase='PROCESSING'
ParseResetJob(j, total) ==
  [j EXCEPT !.total_rows = total, !.next_index = 0, !.processed_rows = 0,
            !.ok_rows = 0, !.ng_rows = 0, !.status = "RUNNING",
            !.phase = "PROCESSING"]

\* handleParseCsv: the batch of INSERTs, every row PENDING
InsertRows(data) ==
  [k \in 1..Len(data) |->
     [member_id |-> data[k].member_id, branch |-> data[k].branch,
      amount |-> data[k].amount, year |-> data[k].year,
      status |-> "PENDING", error |-> NULL]]

\* the DONE guard without its toUpperCase(): "DONE" never equals "done"
JobIsDoneCaseSensitive(j) == j.status = "done"

\* handleProcessRows: if (status === "DONE") return
JobIsDone(j) == j.status = "DONE"

SortedSeq(S) ==
  LET RECURSIVE Build(_)
      Build(T) == IF T = {} THEN <<>>
                  ELSE LET m == SetMin(T) IN <<m>> \o Build(T \ {m})
  IN Build(S)

\* the batch query without its status filter
SelectFromCursor(rws, from, limit) ==
  LET P == {i \in 0..(Len(rws) - 1) : i >= from}
      F == {i \in P : Cardinality({k \in P : k < i}) < limit}
  IN SortedSeq(F)

\* SELECT ... WHERE row_index>=? AND status='PENDING' ORDER BY row_index LIMIT ?
SelectPending(rws, from, limit) ==
  LET P == {i \in 0..(Len(rws) - 1) : i >= from /\ rws[i + 1].status = "PENDING"}
      F == {i \in P : Cardinality({k \in P : k < i}) < limit}
  IN SortedSeq(F)

\* SELECT MIN(row_index) ... WHERE status='PENDING'
MinPending(rws) ==
  LET P == {i \in 0..(Len(rws) - 1) : rws[i + 1].status = "PENDING"}
  IN IF P = {} THEN NoNum ELSE SetMin(P)

\* the COUNT with status<>'DONE' in place of status='PENDING'
CountNotDone(rws) ==
  Cardinality({i \in 0..(Len(rws) - 1) : rws[i + 1].status # "DONE"})

\* SELECT COUNT(*) ... WHERE status='PENDING'
CountPending(rws) ==
  Cardinality({i \in 0..(Len(rws) - 1) : rws[i + 1].status = "PENDING"})

\* the row UPDATE setting the error column only
UpdateRowErrorOnly(rws, idx, st, err) ==
  IF idx + 1 \in DOMAIN rws THEN [rws EXCEPT ![idx + 1].error = err] ELSE rws

\* UPDATE receipt_import_row SET status=?, error=? WHERE job_id=? AND row_index=?
UpdateRow(rws, idx, st, err) ==
  IF idx + 1 \in DOMAIN rws
    THEN [rws EXCEPT ![idx + 1].status = st, ![idx + 1].error = err]
    ELSE rws

\* the conflict target of receipt_annual
SameKey(r1, r2) == r1.year = r2.year /\ r1.member_id = r2.member_id

\* the DO UPDATE SET list without status=excluded.status
upsertAnnualKeepStatus(store, rec) ==
  {r \in store : ~SameKey(r, rec)} \cup
  (IF \E r \in store : SameKey(r, rec)
     THEN {[rec EXCEPT !.status = r.status] : r \in {q \in store : SameKey(q, rec)}}
     ELSE {rec})

\* ON CONFLICT(year, member_id) DO NOTHING: the first record of a key stays
upsertAnnualKeepFirst(store, rec) ==
  IF \E r \in store : r.year = rec.year /\ r.member_id = rec.member_id
    THEN store ELSE store \cup {rec}

\* a plain INSERT, without the ON CONFLICT clause
insertAnnual(store, rec) == store \cup {rec}

\* INSERT INTO receipt_annual ... ON CONFLICT(year, member_id) DO UPDATE SET ...
upsertAnnual(store, rec) ==
  {r \in store : ~(r.year = rec.year /\ r.member_id = rec.member_id)} \cup {rec}

\* the final UPDATE without status='DONE'
MarkJobCursorOnly(j, total) ==
  [j EXCEPT !.next_index = total, !.processed_rows = total]

\* the final UPDATE without next_index=?, processed_rows=?
MarkJobStatusOnly(j, total) == [j EXCEPT !.status = "DONE"]

\* UPDATE receipt_import_job SET status='DONE', next_index=?, processed_rows=?
MarkJobDone(j, total) ==
  [j EXCEPT !.status = "DONE", !.next_index = total, !.processed_rows = total]

\* processed_rows accumulated like the ok/ng counters
PersistProgressAccumulate(j, ok, ng, maxRowIndex, total) ==
  [j EXCEPT !.ok_rows = @ + ok, !.ng_rows = @ + ng,
            !.processed_rows = Min(total, @ + ok + ng),
            !.next_index = maxRowIndex, !.status = "RUNNING"]

\* the cursor moved on by the batch size, not by the rows taken up
PersistProgressByBatch(j, ok, ng, maxRowIndex, total) ==
  [j EXCEPT !.ok_rows = @ + ok, !.ng_rows = @ + ng,
            !.processed_rows = Min(total, maxRowIndex),
            !.next_index = Min(total, @ + BATCH), !.status = "RUNNING"]

\* ok_rows=?, ng_rows=? in place of ok_rows=ok_rows+?, ng_rows=ng_rows+?
PersistProgressOverwrite(j, ok, ng, maxRowIndex, total) ==
  [j EXCEPT !.ok_rows = ok, !.ng_rows = ng,
            !.processed_rows = Min(total, maxRowIndex),
            !.next_index = maxRowIndex, !.status = "RUNNING"]

\* UPDATE receipt_import_job SET ok_rows=ok_rows+?, ng_rows=ng_rows+?,
\*   processed_rows=?, next_index=?, status='RUNNING'
PersistProgress(j, ok, ng, maxRowIndex, total) ==
  [j EXCEPT !.ok_rows = @ + ok, !.ng_rows = @ + ng,
            !.processed_rows = Min(total, maxRowIndex),
            !.next_index = maxRowIndex, !.status = "RUNNING"]

\* the row UPDATE setting email and pdf_key only
UpdateRowDoneKeepStatus(rws, idx) == rws

\* UPDATE receipt_import_row SET status='DONE', email=?, pdf_key=? (error is kept)
UpdateRowDone(rws, idx) ==
  IF idx + 1 \in DOMAIN rws THEN [rws EXCEPT ![idx + 1].status = "DONE"] ELSE rws

\* ---------------------------------------------------------------------
\* HTTP: POST /api/admin/receipt/import/start
\* ---------------------------------------------------------------------
ImportStart(uploads) ==
  /\ job.status = "NONE"
  /\ \E data \in uploads :
       /\ csv' = data
       /\ bucket' = bucket \cup {CsvKey}
       /\ job' = InsertJob(PeekYear(data))
  /\ queue' = [queue EXCEPT !["parse_csv"] = @ + 1]
  /\ sent' = sent \cup {"parse_csv"}
  /\ UNCHANGED <<aux, rows, receipts, pc, loc, hsGets, puts, counted, lastOut,
                 overlap, requeues, dups, crashes, earlyReturns, probes>>

\* ---------------------------------------------------------------------
\* Queue consumer: queue(batch, env, ctx)
\* ---------------------------------------------------------------------
AllIdle == \A q \in Procs : pc[q] = "idle"

\* A message is handed to the consumer, which dispatches on its type.
Deliver(p, t) ==
  /\ pc[p] = "idle"
  /\ queue[t] > 0
  /\ queue' = [queue EXCEPT ![t] = @ - 1]
  /\ pc' = [pc EXCEPT ![p] = IF t = "parse_csv" THEN "parse_load" ELSE "pr_load"]
  /\ loc' = [loc EXCEPT ![p] = [Idle EXCEPT !.type = t]]
  /\ UNCHANGED <<aux, csv, stores, ghosts>>

\* The handler returned: msg.ack()
Ack(p) ==
  /\ pc' = [pc EXCEPT ![p] = "idle"]
  /\ loc' = [loc EXCEPT ![p] = Idle]

\* the catch block acknowledging the message instead of retrying it
CrashAcked(p) ==
  /\ pc[p] # "idle"
  /\ crashes < MaxCrashes
  /\ crashes' = crashes + 1
  /\ Ack(p)
  /\ UNCHANGED <<aux, csv, stores, queue, hsGets, puts, counted, lastOut, overlap,
                 sent, requeues, dups, earlyReturns, probes>>

\* The handler threw: msg.retry() puts the message back
Crash(p) ==
  /\ pc[p] # "idle"
  /\ crashes < MaxCrashes
  /\ crashes' = crashes + 1
  /\ queue' = [queue EXCEPT ![loc[p].type] = @ + 1]
  /\ Ack(p)
  /\ UNCHANGED <<aux, csv, stores, hsGets, puts, counted, lastOut, overlap, sent,
                 requeues, dups, earlyReturns, probes>>

\* At-least-once delivery: a message that was sent is delivered once more.
Duplicate(t) ==
  /\ t \in sent
  /\ dups < MaxDups
  /\ dups' = dups + 1
  /\ queue' = [queue EXCEPT ![t] = @ + 1]
  /\ UNCHANGED <<aux, csv, stores, pc, loc, hsGets, puts, counted, lastOut, overlap,
                 sent, requeues, crashes, earlyReturns, probes>>

\* ---------------------------------------------------------------------
\* handleParseCsv
\* ---------------------------------------------------------------------
\* load the job, get the CSV object, parse it, reset the job record
ParseUpdateJob(p) ==
  /\ pc[p] = "parse_load"
  /\ IF job.status = "NONE"
       THEN Ack(p) /\ UNCHANGED job
       ELSE IF CsvKey \notin bucket
         THEN Ack(p) /\ job' = [job EXCEPT !.status = "ERROR"]
         ELSE /\ job' = ParseResetJob(job, Len(csv))
              /\ pc' = [pc EXCEPT ![p] = "parse_delete"]
              /\ loc' = loc
  /\ UNCHANGED <<aux, csv, rows, receipts, bucket, queue, ghosts>>

\* DELETE FROM receipt_import_row WHERE job_id=?
ParseDeleteRows(p) ==
  /\ pc[p] = "parse_delete"
  /\ rows' = <<>>
  /\ pc' = [pc EXCEPT ![p] = "parse_insert"]
  /\ UNCHANGED <<aux, csv, job, receipts, bucket, queue, loc, ghosts>>

\* the chunked batch INSERT (one chunk: total <= CHUNK)
ParseInsertRows(p) ==
  /\ pc[p] = "parse_insert"
  /\ rows' = InsertRows(csv)
  /\ pc' = [pc EXCEPT ![p] = "parse_send"]
  /\ UNCHANGED <<aux, csv, job, receipts, bucket, queue, loc, ghosts>>

\* IMPORT_Q.send({ type: "process_rows", job_id })
ParseSend(p) ==
  /\ pc[p] = "parse_send"
  /\ queue' = [queue EXCEPT !["process_rows"] = @ + 1]
  /\ sent' = sent \cup {"process_rows"}
  /\ Ack(p)
  /\ UNCHANGED <<aux, csv, stores, hsGets, puts, counted, lastOut, overlap,
                 requeues, dups, crashes, earlyReturns, probes>>

\* ---------------------------------------------------------------------
\* handleProcessRows
\* ---------------------------------------------------------------------
RowPcs == {"pr_loop", "pr_needs_email", "pr_put", "pr_upsert", "pr_mark"}

\* invocation q has claimed row_index idx and not yet finished with it
Holds(q, idx) ==
  /\ pc[q] \in RowPcs
  /\ \E k \in DOMAIN loc[q].list : k >= loc[q].i /\ loc[q].list[k] = idx

Claimed(p, list) ==
  {list[k] : k \in DOMAIN list} \cap {idx \in RowIdx : \E q \in Procs \ {p} : Holds(q, idx)}

\* SELECT * FROM receipt_import_job; return if absent or DONE
ProcessLoadJob(p) ==
  /\ pc[p] = "pr_load"
  /\ IF job.status = "NONE" \/ JobIsDone(job)
       THEN /\ Ack(p)
            /\ earlyReturns' = IF job.status = "NONE" THEN earlyReturns
                                ELSE earlyReturns + 1
       ELSE /\ pc' = [pc EXCEPT ![p] = "pr_select"]
            /\ loc' = [loc EXCEPT ![p].total = job.total_rows,
                                  ![p].next_index = job.next_index,
                                  ![p].year = job.year]
            /\ UNCHANGED earlyReturns
  /\ UNCHANGED <<aux, csv, stores, queue, hsGets, puts, counted, lastOut, overlap,
                 sent, requeues, dups, crashes, probes>>

\* fetch next PENDING rows at or after next_index
ProcessSelect(p) ==
  /\ pc[p] = "pr_select"
  /\ LET list == SelectPending(rows, loc[p].next_index, BATCH) IN
       /\ pc' = [pc EXCEPT ![p] = IF Len(list) = 0 THEN "pr_min" ELSE "pr_loop"]
       /\ loc' = [loc EXCEPT ![p].list = list, ![p].i = 1,
                             ![p].maxRowIndex = loc[p].next_index]
       /\ overlap' = overlap \cup Claimed(p, list)
  /\ UNCHANGED <<aux, csv, stores, queue, hsGets, puts, counted, lastOut, sent,
                 requeues, dups, crashes, earlyReturns, probes>>

\* nothing at or after the cursor: DONE, without looking below the cursor
ProcessMinPendingNoRestart(p) ==
  /\ pc[p] = "pr_min"
  /\ job' = MarkJobDone(job, loc[p].total)
  /\ Ack(p)
  /\ UNCHANGED <<aux, csv, rows, receipts, bucket, queue, ghosts>>

\* nothing at or after the cursor: MIN(row_index) still PENDING, else DONE
ProcessMinPending(p) ==
  /\ pc[p] = "pr_min"
  /\ LET m == MinPending(rows) IN
       IF m = NoNum
         THEN /\ job' = MarkJobDone(job, loc[p].total)
              /\ Ack(p)
         ELSE /\ job' = job
              /\ pc' = [pc EXCEPT ![p] = "pr_reselect"]
              /\ loc' = [loc EXCEPT ![p].next_index = m]
  /\ UNCHANGED <<aux, csv, rows, receipts, bucket, queue, ghosts>>

\* the second SELECT, from the minimum PENDING row.  Reached only when a row
\* below the cursor is PENDING, which takes a handleParseCsv run overlapping
\* a handleProcessRows run; in the specifications below the position
\* "pr_reselect" is unreachable (NoReselect) and the step is not part of Step.
ProcessReselect(p) ==
  /\ pc[p] = "pr_reselect"
  /\ LET list == SelectPending(rows, loc[p].next_index, BATCH) IN
       IF Len(list) = 0
         THEN Ack(p) /\ overlap' = overlap
         ELSE /\ pc' = [pc EXCEPT ![p] = "pr_loop"]
              /\ loc' = [loc EXCEPT ![p].list = list, ![p].i = 1,
                                    ![p].maxRowIndex = loc[p].next_index]
              /\ overlap' = overlap \cup Claimed(p, list)
  /\ UNCHANGED <<aux, csv, stores, queue, hsGets, puts, counted, lastOut, sent,
                 requeues, dups, crashes, earlyReturns, probes>>

\* if (!hs || !hs.ok): the lookup threw (caught: .catch(() => null)) or its
\* answer is not a success
LookupFailed(out) == out \in {"fail", "transient"}

\* the receipt_annual record written for a row
AnnualRec(r, jobYear, key, st, err) ==
  [year |-> RowYear(r, jobYear), member_id |-> r.member_id,
   pdf_key |-> key, status |-> st, error |-> err]

\* one turn of the loop, up to and including its first write:
\* time guard, validation, Directory lookup
ProcessRow(p, answers) ==
  /\ pc[p] = "pr_loop"
  /\ \E brk \in BOOLEAN, out \in answers :
       LET l == loc[p] IN
       IF l.i > Len(l.list) \/ (brk /\ l.i > 1)
         THEN /\ pc' = [pc EXCEPT ![p] = "pr_persist"]
              /\ UNCHANGED <<loc, rows, receipts, hsGets, lastOut, lastRow>>
         ELSE
           LET idx == l.list[l.i]
               r == csv[idx + 1]
               mx == Max(l.maxRowIndex, idx + 1)
           IN
           /\ lastRow' = idx
           /\ IF RowInvalid(r, l.year)
                THEN /\ rows' = UpdateRow(rows, idx, "ERROR", "invalid_row")
                     /\ loc' = [loc EXCEPT ![p].maxRowIndex = mx, ![p].ng = @ + 1,
                                           ![p].done = Append(@, idx), ![p].i = @ + 1]
                     /\ UNCHANGED <<pc, receipts, hsGets, lastOut>>
                ELSE
                  /\ hsGets' = [hsGets EXCEPT ![idx] = @ + 1]
                  /\ lastOut' = [lastOut EXCEPT ![idx] = out]
                  /\ IF LookupFailed(out)
                       THEN /\ rows' = UpdateRow(rows, idx, "ERROR", "hubspot_not_found")
                            /\ loc' = [loc EXCEPT ![p].maxRowIndex = mx, ![p].ng = @ + 1,
                                                  ![p].done = Append(@, idx),
                                                  ![p].i = @ + 1]
                            /\ UNCHANGED <<pc, receipts>>
                       ELSE IF out = "noemail"
                         THEN /\ receipts' = upsertAnnual(receipts,
                                    AnnualRec(r, l.year, "", "ERROR", "missing_email"))
                              /\ loc' = [loc EXCEPT ![p].maxRowIndex = mx,
                                                    ![p].ng = @ + 1,
                                                    ![p].done = Append(@, idx)]
                              /\ pc' = [pc EXCEPT ![p] = "pr_needs_email"]
                              /\ UNCHANGED rows
                         ELSE /\ loc' = [loc EXCEPT ![p].maxRowIndex = mx]
                              /\ pc' = [pc EXCEPT ![p] = "pr_put"]
                              /\ UNCHANGED <<rows, receipts>>
  /\ UNCHANGED <<aux, csv, job, bucket, queue, puts, counted, overlap, sent,
                 requeues, dups, crashes, earlyReturns, patches, patchFails, genFails>>

\* UPDATE receipt_import_row SET status='NEEDS_EMAIL', error='missing_email'
ProcessNeedsEmail(p) ==
  /\ pc[p] = "pr_needs_email"
  /\ rows' = UpdateRow(rows, loc[p].list[loc[p].i], "NEEDS_EMAIL", "missing_email")
  /\ loc' = [loc EXCEPT ![p].i = @ + 1]
  /\ pc' = [pc EXCEPT ![p] = "pr_loop"]
  /\ UNCHANGED <<aux, csv, job, receipts, bucket, queue, ghosts>>

\* what the write-back and generateReceiptPdf may do under the given faults
PatchAnswers(faults) == IF "patch_failed" \in faults THEN BOOLEAN ELSE {FALSE}
GenAnswers(faults) ==
  IF "template_not_found" \in faults /\ genFails < MaxCrashes THEN BOOLEAN ELSE {FALSE}

\* the handler throws while it holds row idx: msg.retry()
PutThrows(p) ==
  /\ queue' = [queue EXCEPT ![loc[p].type] = @ + 1]
  /\ Ack(p)
  /\ UNCHANGED <<bucket, puts>>

\* the loop going on to the upsert without the put
PutStoresNothing(p, idx) ==
  /\ puts' = [puts EXCEPT ![idx] = @ + 1]
  /\ pc' = [pc EXCEPT ![p] = "pr_upsert"]
  /\ UNCHANGED <<bucket, queue, loc>>

\* RECEIPTS_BUCKET.put(pdf_key, pdf)
PutStores(p, idx) ==
  /\ bucket' = bucket \cup {PdfKey(csv[idx + 1].member_id,
                                  RowYear(csv[idx + 1], loc[p].year))}
  /\ puts' = [puts EXCEPT ![idx] = @ + 1]
  /\ pc' = [pc EXCEPT ![p] = "pr_upsert"]
  /\ UNCHANGED <<queue, loc>>

\* the write-back outside its try/catch: a failed PATCH ends the invocation
ProcessPutPatchBlocking(p, faults) ==
  /\ pc[p] = "pr_put"
  /\ LET idx == loc[p].list[loc[p].i] IN
       \E failed \in PatchAnswers(faults), missing \in GenAnswers(faults) :
         /\ patches' = [patches EXCEPT ![idx] = @ + 1]
         /\ patchFails' = IF failed THEN patchFails \cup {idx} ELSE patchFails \ {idx}
         /\ genFails' = IF missing /\ ~failed THEN genFails + 1 ELSE genFails
         /\ IF failed \/ missing THEN PutThrows(p) ELSE PutStores(p, idx)
  /\ UNCHANGED <<aux, csv, job, rows, receipts, hsGets, counted, lastOut, overlap, sent,
                 requeues, dups, crashes, earlyReturns, lastRow>>

\* generateReceiptPdf returning a document although the template is absent
ProcessPutNoTemplateCheck(p, faults) ==
  /\ pc[p] = "pr_put"
  /\ LET idx == loc[p].list[loc[p].i] IN
       \E failed \in PatchAnswers(faults), missing \in GenAnswers(faults) :
         /\ patches' = [patches EXCEPT ![idx] = @ + 1]
         /\ patchFails' = IF failed THEN patchFails \cup {idx} ELSE patchFails \ {idx}
         /\ genFails' = IF missing THEN genFails + 1 ELSE genFails
         /\ PutStores(p, idx)
  /\ UNCHANGED <<aux, csv, job, rows, receipts, hsGets, counted, lastOut, overlap, sent,
                 requeues, dups, crashes, earlyReturns, lastRow>>

\* patch (best effort): try { hubspotPatchContactByIdProperty(...) } catch {}
\* -- the answer is not looked at and an exception is swallowed; then
\* generateReceiptPdf and RECEIPTS_BUCKET.put(pdf_key, pdf).  Without the
\* template or the font generateReceiptPdf throws (template_not_found,
\* jp_font_not_found); nothing in handleProcessRows catches it, so the
\* consumer answers with msg.retry().
ProcessPut(p, faults) ==
  /\ pc[p] = "pr_put"
  /\ LET idx == loc[p].list[loc[p].i] IN
       \E failed \in PatchAnswers(faults), missing \in GenAnswers(faults) :
         /\ patches' = [patches EXCEPT ![idx] = @ + 1]
         /\ patchFails' = IF failed THEN patchFails \cup {idx} ELSE patchFails \ {idx}
         /\ genFails' = IF missing THEN genFails + 1 ELSE genFails
         /\ IF missing THEN PutThrows(p) ELSE PutStores(p, idx)
  /\ UNCHANGED <<aux, csv, job, rows, receipts, hsGets, counted, lastOut, overlap, sent,
                 requeues, dups, crashes, earlyReturns, lastRow>>

\* upsertAnnual(... status: "DONE", error: null)
ProcessUpsert(p) ==
  /\ pc[p] = "pr_upsert"
  /\ LET idx == loc[p].list[loc[p].i]
         r == csv[idx + 1]
     IN receipts' = upsertAnnual(receipts,
           AnnualRec(r, loc[p].year, PdfKey(r.member_id, RowYear(r, loc[p].year)),
                     "DONE", NULL))
  /\ pc' = [pc EXCEPT ![p] = "pr_mark"]
  /\ UNCHANGED <<aux, csv, job, rows, bucket, queue, loc, ghosts>>

\* UPDATE receipt_import_row SET status='DONE', email=?, pdf_key=?; ok++
ProcessMarkDone(p) ==
  /\ pc[p] = "pr_mark"
  /\ LET idx == loc[p].list[loc[p].i] IN
       /\ rows' = UpdateRowDone(rows, idx)
       /\ loc' = [loc EXCEPT ![p].ok = @ + 1, ![p].done = Append(@, idx),
                             ![p].i = @ + 1]
  /\ pc' = [pc EXCEPT ![p] = "pr_loop"]
  /\ UNCHANGED <<aux, csv, job, receipts, bucket, queue, ghosts>>

\* number of times idx occurs in the sequence s
Occurrences(s, idx) == Cardinality({k \in DOMAIN s : s[k] = idx})

\* the UPDATE of the job record after the batch
ProcessPersist(p) ==
  /\ pc[p] = "pr_persist"
  /\ job' = PersistProgress(job, loc[p].ok, loc[p].ng, loc[p].maxRowIndex, loc[p].total)
  /\ counted' = [idx \in RowIdx |-> counted[idx] + Occurrences(loc[p].done, idx)]
  /\ pc' = [pc EXCEPT ![p] = "pr_count"]
  /\ UNCHANGED <<aux, csv, rows, receipts, bucket, queue, loc, hsGets, puts, lastOut,
                 overlap, sent, requeues, dups, crashes, earlyReturns, probes>>

\* SELECT COUNT(*) ... WHERE status='PENDING'
ProcessCount(p) ==
  /\ pc[p] = "pr_count"
  /\ loc' = [loc EXCEPT ![p].left = CountPending(rows)]
  /\ pc' = [pc EXCEPT ![p] = "pr_final"]
  /\ UNCHANGED <<aux, csv, stores, queue, ghosts>>

\* left > 0: send the continuation message; else mark the job DONE
ProcessFinish(p) ==
  /\ pc[p] = "pr_final"
  /\ IF loc[p].left > 0
       THEN /\ queue' = [queue EXCEPT !["process_rows"] = @ + 1]
            /\ requeues' = requeues + 1
            /\ job' = job
       ELSE /\ job' = MarkJobDone(job, loc[p].total)
            /\ UNCHANGED <<queue, requeues>>
  /\ Ack(p)
  /\ UNCHANGED <<aux, csv, rows, receipts, bucket, hsGets, puts, counted, lastOut,
                 overlap, sent, dups, crashes, earlyReturns, probes>>

Step(p, answers, faults) ==
  \/ ParseUpdateJob(p)
  \/ ParseDeleteRows(p)
  \/ ParseInsertRows(p)
  \/ ParseSend(p)
  \/ ProcessLoadJob(p)
  \/ ProcessSelect(p)
  \/ ProcessMinPending(p)
  \/ ProcessRow(p, answers)
  \/ ProcessNeedsEmail(p)
  \/ ProcessPut(p, faults)
  \/ ProcessUpsert(p)
  \/ ProcessMarkDone(p)
  \/ ProcessPersist(p)
  \/ ProcessCount(p)
  \/ ProcessFinish(p)

\* ---------------------------------------------------------------------
\* Specifications
\* ---------------------------------------------------------------------
\* Invocations of the consumer never overlap; process_rows messages may be
\* duplicated and an invocation may abort.
Next ==
  \/ ImportStart(Csvs)
  \/ \E t \in MsgTypes : AllIdle /\ Deliver(1, t)
  \/ Step(1, HsOutcomes, {})
  \/ Crash(1)
  \/ Duplicate("process_rows")

Spec == Init /\ [][Next]_vars

\* Invocations may overlap: no lease or lock protects a job.
NextConc ==
  \/ ImportStart(ConcCsvs)
  \/ \E t \in MsgTypes : Deliver(1, t)
  \/ pc[1] # "idle" /\ Deliver(2, "process_rows")
  \/ \E p \in Procs : Step(p, ConcOutcomes, {})
  \/ Duplicate("process_rows")

SpecConc == Init /\ [][NextConc]_vars

\* A parse_csv message delivered again may be handled while a
\* handleProcessRows invocation is running: rows fall back to PENDING below
\* the cursor that the running invocation then stores.
NextReparse ==
  \/ ImportStart(ConcCsvs)
  \/ \E t \in MsgTypes : Deliver(1, t)
  \/ pc[1] # "idle" /\ Deliver(2, "parse_csv")
  \/ \E p \in Procs : Step(p, ConcOutcomes, {})
  \/ \E p \in Procs : ProcessReselect(p)
  \/ Duplicate("parse_csv")

SpecReparse == Init /\ [][NextReparse]_vars

\* parse_csv messages may be delivered more than once as well.
NextRedeliver ==
  \/ ImportStart(RedeliverCsvs)
  \/ \E t \in MsgTypes : AllIdle /\ Deliver(1, t)
  \/ Step(1, HsOutcomes, {})
  \/ Crash(1)
  \/ \E t \in MsgTypes : Duplicate(t)

SpecRedeliver == Init /\ [][NextRedeliver]_vars

\* One invocation at a time, every message delivered once, no invocation is
\* cut short from outside; the Directory may answer with a transient failure,
\* the write-back may fail, and the template or the font may be absent.
NextFaults ==
  \/ ImportStart(FaultCsvs)
  \/ \E t \in MsgTypes : AllIdle /\ Deliver(1, t)
  \/ Step(1, AllOutcomes, Faults)

SpecFaults == Init /\ [][NextFaults]_vars

\* Fairness: the queue delivers a waiting message once the consumer is free,
\* and every awaited call of a running handler returns.
NextLive ==
  \/ ImportStart(LiveCsvs)
  \/ \E t \in MsgTypes : AllIdle /\ Deliver(1, t)
  \/ Step(1, HsOutcomes, {})
  \/ Crash(1)
  \/ Duplicate("process_rows")

LiveSpec ==
  /\ Init /\ [][NextLive]_vars
  /\ WF_vars(\E t \in MsgTypes : AllIdle /\ Deliver(1, t))
  /\ WF_vars(Step(1, HsOutcomes, {}))

\* ---------------------------------------------------------------------
\* upsertAnnual on its own: any sequence of upserts of full records
\* ---------------------------------------------------------------------

\* the nine bound columns of a record; branch, amount and issue date vary
\* together, and so do name, artifact key, status and error
UpsertRec(y, m, br, st) ==
  [year |-> y, member_id |-> m, branch |-> br,
   name |-> IF st = "DONE" THEN "n" ELSE "(HubSpot not found)",
   amount_cents |-> IF br = "b" THEN 10000 ELSE 20000,
   issue_date |-> IF br = "b" THEN "d1" ELSE "d2",
   pdf_key |-> IF st = "DONE" THEN PdfKey(m, y) ELSE <<>>,
   status |-> st,
   error |-> IF st = "DONE" THEN NULL ELSE "hubspot_not_found"]
UpsertRecs ==
  {UpsertRec(y, m, br, st) :
     y \in {2024, 2025}, m \in Members, br \in {"b", "c"}, st \in {"DONE", "ERROR"}}

ApplyUpsert ==
  /\ upserts < MaxUpserts
  /\ \E rec \in UpsertRecs : receipts' = upsertAnnual(receipts, rec)
  /\ upserts' = upserts + 1
  /\ UNCHANGED <<csv, job, rows, bucket, queue, pc, loc, ghosts,
                 cont, gen, tmplCache, fontCache, fetches, sheet, text, decoded, side>>

NextUpsert == ApplyUpsert
SpecUpsert == Init /\ [][NextUpsert]_vars

\* ---------------------------------------------------------------------
\* The HTTP pair import / import/continue: the request handler walks the
\* uploaded CSV itself, from the job's next_index, one row per turn of its
\* loop.  One turn of the loop is one step.
\* ---------------------------------------------------------------------
MemberNames == <<"m1", "m2", "m3", "m4", "m5", "m6", "m7", "m8", "m9", "m10",
                 "m11", "m12", "m13", "m14", "m15", "m16", "m17", "m18", "m19",
                 "m20", "m21", "m22", "m23", "m24">>
MemberNo(m) == CHOOSE k \in DOMAIN MemberNames : MemberNames[k] = m

\* uploads for import/continue: in "distinct" every row is valid and has a
\* member_id of its own; in "pairs" two neighbouring rows share a member_id
\* and every fifth row has none
ContinueMember(shape, k) ==
  IF shape = "distinct" THEN MemberNames[((k - 1) % Len(MemberNames)) + 1]
  ELSE IF k % 5 = 0 THEN ""
  ELSE MemberNames[(((k + 1) \div 2 - 1) % Len(MemberNames)) + 1]
ContinueCsvs ==
  {[k \in 1..n |-> CsvRow(ContinueMember(shape, k))] :
     n \in 1..MaxContinueRows, shape \in {"distinct", "pairs"}}

\* what the Directory holds: in "present" every member is found with an
\* email; in "thirds" every third member is not found and every third, from
\* the second on, has no email
DirShapes == {"present", "thirds"}
DirAnswer(dir, m) ==
  IF dir = "present" THEN "ok"
  ELSE IF MemberNo(m) % 3 = 0 THEN "fail"
  ELSE IF MemberNo(m) % 3 = 2 THEN "noemail"
  ELSE "ok"

\* clampInt(batch, 1, 50, 5) on an absent and on an oversized parameter
ContinueBatches == {5, 50}

\* POST /api/admin/receipt/import
Import(uploads) ==
  /\ job.status = "NONE"
  /\ \E data \in uploads, dir \in DirShapes :
       /\ csv' = data
       /\ job' = [NoJob EXCEPT !.status = "READY", !.year = PeekYear(data),
                               !.total_rows = Len(data)]
       /\ cont' = [cont EXCEPT !.dir = dir]
  /\ bucket' = bucket \cup {CsvKey}
  /\ UNCHANGED <<rows, receipts, queue, pc, loc, ghosts,
                 upserts, gen, tmplCache, fontCache, fetches, sheet, text, decoded, side>>

\* import/continue up to the loop
ContinueStart ==
  /\ cont.pc = "idle"
  /\ job.status # "NONE"
  /\ CsvKey \in bucket
  /\ \E batch \in ContinueBatches :
       cont' = [ContIdle EXCEPT !.pc = "loop", !.dir = cont.dir,
                                !.aborts = cont.aborts,
                                !.start = job.next_index,
                                !.i = job.next_index,
                                !.targetEnd = Min(Len(csv), job.next_index + batch)]
  /\ UNCHANGED <<csv, stores, queue, pc, loc, ghosts,
                 upserts, gen, tmplCache, fontCache, fetches, sheet, text, decoded, side>>

\* the receipt_annual record import/continue writes for a row
ContinueRec(r, jobYear, key, st, err) ==
  [AnnualRec(r, jobYear, key, st, err)
     EXCEPT !.member_id = IF r.member_id = "" THEN "(missing)" ELSE r.member_id,
            !.year = IF RowYear(r, jobYear) = NoNum THEN jobYear ELSE RowYear(r, jobYear)]

\* hsUsed <= HS_LIMIT in place of hsUsed < HS_LIMIT
GetAllowedOffByOne(hsUsed) == hsUsed <= HS_LIMIT

\* if (hsUsed >= HS_LIMIT) { processed--; break; }
GetAllowed(hsUsed) == hsUsed < HS_LIMIT

CacheSet(cache, m, out) ==
  [x \in DOMAIN cache \cup {m} |-> IF x = m THEN out ELSE cache[x]]

\* one turn of the for loop, from the time guard to continue / ok++
ContinueRow ==
  /\ cont.pc = "loop"
  /\ \E brk \in BOOLEAN, slow \in BOOLEAN :
       LET c == cont IN
       IF c.i >= c.targetEnd \/ c.late \/ (brk /\ c.i > c.start)
         THEN /\ cont' = [c EXCEPT !.pc = "persist"]
              /\ UNCHANGED <<receipts, bucket>>
         ELSE
           LET r == csv[c.i + 1]
               m == r.member_id
               cached == m \in DOMAIN c.hsCache
               out == IF cached THEN c.hsCache[m] ELSE DirAnswer(c.dir, m)
               used == IF cached THEN c.hsUsed ELSE c.hsUsed + 1
               gets == IF cached THEN 0 ELSE 1
               taken == [c EXCEPT !.processed = @ + 1, !.i = @ + 1]
           IN
           IF RowInvalid(r, job.year)
             THEN /\ receipts' = upsertAnnual(receipts,
                        ContinueRec(r, job.year, "", "ERROR", "invalid_row"))
                  /\ cont' = [taken EXCEPT !.ng = @ + 1]
                  /\ UNCHANGED bucket
             ELSE IF ~cached /\ ~GetAllowed(c.hsUsed)
               THEN /\ cont' = [c EXCEPT !.pc = "persist", !.capped = c.i]
                    /\ UNCHANGED <<receipts, bucket>>
             ELSE IF out # "ok"
               THEN /\ receipts' = upsertAnnual(receipts,
                          ContinueRec(r, job.year, "", "ERROR",
                            IF out = "fail" THEN "hubspot_not_found" ELSE "missing_email"))
                    /\ cont' = [taken EXCEPT !.ng = @ + 1, !.hsUsed = used,
                                             !.calls = @ + gets,
                                             !.hsCache = CacheSet(@, m, out)]
                    /\ UNCHANGED bucket
             ELSE
               LET patch == used < HS_LIMIT /\ ~slow IN
               /\ bucket' = bucket \cup {PdfKey(m, RowYear(r, job.year))}
               /\ receipts' = upsertAnnual(receipts,
                     ContinueRec(r, job.year, PdfKey(m, RowYear(r, job.year)),
                                 "DONE", NULL))
               /\ cont' = [taken EXCEPT !.ok = @ + 1,
                                        !.hsUsed = IF patch THEN used + 1 ELSE used,
                                        !.calls = @ + gets + (IF patch THEN 1 ELSE 0),
                                        !.hsCache = CacheSet(@, m, out),
                                        !.late = slow]
  /\ UNCHANGED <<csv, job, rows, queue, pc, loc, ghosts,
                 upserts, gen, tmplCache, fontCache, fetches, sheet, text, decoded, side>>

\* the end of the requested range stored as the cursor, whatever the loop did
ContinuePersistJobTargetEnd(j, c) ==
  [j EXCEPT !.processed_rows = c.targetEnd,
            !.ok_rows = @ + c.ok,
            !.ng_rows = @ + c.ng,
            !.next_index = c.targetEnd,
            !.status = IF c.targetEnd >= j.total_rows THEN "DONE" ELSE "RUNNING"]

\* UPDATE receipt_import_job SET processed_rows=?, ok_rows=ok_rows+?, ...
ContinuePersistJob(j, c) ==
  LET next_index == c.start + c.processed IN
  [j EXCEPT !.processed_rows = next_index,
            !.ok_rows = @ + c.ok,
            !.ng_rows = @ + c.ng,
            !.next_index = next_index,
            !.status = IF next_index >= j.total_rows THEN "DONE" ELSE "RUNNING"]

ContinuePersist ==
  /\ cont.pc = "persist"
  /\ job' = ContinuePersistJob(job, cont)
  /\ cont' = [cont EXCEPT !.pc = "idle"]
  /\ UNCHANGED <<csv, rows, receipts, bucket, queue, pc, loc, ghosts,
                 upserts, gen, tmplCache, fontCache, fetches, sheet, text, decoded, side>>

NextContinue ==
  \/ Import(ContinueCsvs)
  \/ ContinueStart
  \/ ContinueRow
  \/ ContinuePersist
SpecContinue == Init /\ [][NextContinue]_vars

\* an awaited call of the loop, or the job UPDATE, throws: the request ends
\* with an error answer; what the loop has written stays, the job record is
\* not updated
ContinueAbort ==
  /\ cont.pc \in {"loop", "persist"}
  /\ cont.aborts < MaxCrashes
  /\ cont' = [cont EXCEPT !.pc = "idle", !.aborts = @ + 1]
  /\ UNCHANGED <<csv, stores, queue, pc, loc, ghosts,
                 upserts, gen, tmplCache, fontCache, fetches, sheet, text, decoded, side>>

NextContinueAbort ==
  \/ Import(ContinueCsvs)
  \/ ContinueStart
  \/ ContinueRow
  \/ ContinuePersist
  \/ ContinueAbort
SpecContinueAbort == Init /\ [][NextContinueAbort]_vars

\* ---------------------------------------------------------------------
\* generateReceiptPdf and the module-level caches.  Every await of a call is
\* a point where another call can run.  The template and the font objects
\* are present in the bucket; a cache holds the number of the read whose
\* bytes it was assigned.
\* ---------------------------------------------------------------------
\* where a call goes once the template is settled: if (!_fontCache)
AfterTemplate(font) == IF font = Unloaded THEN "font_get" ELSE "build"

\* if (!_tmplCache): start the read, or go on to the font
GenCall(c) ==
  /\ gen[c].pc = "idle"
  /\ gen' = [gen EXCEPT ![c].pc = IF tmplCache = Unloaded THEN "tmpl_get"
                                  ELSE AfterTemplate(fontCache)]
  /\ UNCHANGED <<tmplCache, fontCache, fetches>>
  /\ UNCHANGED <<csv, stores, queue, pc, loc, ghosts, upserts, cont, sheet, text, decoded, side>>

\* const t = await env.RECEIPTS_BUCKET.get("templates/receipt_template_v1.pdf")
GenTmplGet(c) ==
  /\ gen[c].pc = "tmpl_get"
  /\ fetches' = [fetches EXCEPT !.tmpl = @ + 1]
  /\ gen' = [gen EXCEPT ![c] = [pc |-> "tmpl_buf", obj |-> fetches.tmpl + 1]]
  /\ UNCHANGED <<tmplCache, fontCache>>
  /\ UNCHANGED <<csv, stores, queue, pc, loc, ghosts, upserts, cont, sheet, text, decoded, side>>

\* _tmplCache = await t.arrayBuffer(); then if (!_fontCache)
GenTmplSet(c) ==
  /\ gen[c].pc = "tmpl_buf"
  /\ tmplCache' = gen[c].obj
  /\ gen' = [gen EXCEPT ![c] = [pc |-> AfterTemplate(fontCache), obj |-> 0]]
  /\ UNCHANGED <<fontCache, fetches>>
  /\ UNCHANGED <<csv, stores, queue, pc, loc, ghosts, upserts, cont, sheet, text, decoded, side>>

\* const f = await env.RECEIPTS_BUCKET.get("templates/fonts/NotoSansJP-Regular.otf")
GenFontGet(c) ==
  /\ gen[c].pc = "font_get"
  /\ fetches' = [fetches EXCEPT !.font = @ + 1]
  /\ gen' = [gen EXCEPT ![c] = [pc |-> "font_buf", obj |-> fetches.font + 1]]
  /\ UNCHANGED <<tmplCache, fontCache>>
  /\ UNCHANGED <<csv, stores, queue, pc, loc, ghosts, upserts, cont, sheet, text, decoded, side>>

\* _fontCache = await f.arrayBuffer()
GenFontSet(c) ==
  /\ gen[c].pc = "font_buf"
  /\ fontCache' = gen[c].obj
  /\ gen' = [gen EXCEPT ![c] = [pc |-> "build", obj |-> 0]]
  /\ UNCHANGED <<tmplCache, fetches>>
  /\ UNCHANGED <<csv, stores, queue, pc, loc, ghosts, upserts, cont, sheet, text, decoded, side>>

\* PDFDocument.load(_tmplCache.slice(0)) ... return await pdf.save(): works on
\* a copy of the template and only reads the font
GenBuild(c) ==
  /\ gen[c].pc = "build"
  /\ gen' = [gen EXCEPT ![c] = GenIdle]
  /\ UNCHANGED <<tmplCache, fontCache, fetches>>
  /\ UNCHANGED <<csv, stores, queue, pc, loc, ghosts, upserts, cont, sheet, text, decoded, side>>

NextCache ==
  \E c \in Callers :
    \/ GenCall(c)
    \/ GenTmplGet(c)
    \/ GenTmplSet(c)
    \/ GenFontGet(c)
    \/ GenFontSet(c)
    \/ GenBuild(c)
SpecCache == Init /\ [][NextCache]_vars

\* ---------------------------------------------------------------------
\* parseCsv, character by character.  A text is a sequence of characters; a
\* run of letters or digits that holds no comma, quote, newline or blank is
\* written as one element ("Doe", "1234.50").  A field value is a sequence of
\* characters as well.
\* ---------------------------------------------------------------------
Quote == "\""
Comma == ","
LF == "\n"
CR == "\r"
Blank == " "
Whitespace == {Blank, LF, CR, "\t"}

\* String.prototype.trim
RECURSIVE TrimLeft(_)
TrimLeft(f) ==
  IF f # <<>> /\ f[1] \in Whitespace THEN TrimLeft(Tail(f)) ELSE f
RECURSIVE TrimRight(_)
TrimRight(f) ==
  IF f # <<>> /\ f[Len(f)] \in Whitespace
    THEN TrimRight(SubSeq(f, 1, Len(f) - 1)) ELSE f
Trim(f) == TrimRight(TrimLeft(f))

\* .replace(/\r\n/g, "\n").replace(/\r/g, "\n")
RECURSIVE NormalizeNewlines(_)
NormalizeNewlines(s) ==
  IF s = <<>> THEN <<>>
  ELSE IF s[1] = CR
    THEN IF Len(s) > 1 /\ s[2] = LF
           THEN <<LF>> \o NormalizeNewlines(SubSeq(s, 3, Len(s)))
           ELSE <<LF>> \o NormalizeNewlines(Tail(s))
  ELSE <<s[1]>> \o NormalizeNewlines(Tail(s))

\* a quote inside a quoted field that only ends the field
NoEscapedQuote(s, i) == FALSE

\* inside quotes, at a quote: const next = s[i + 1]; if (next === '"')
EscapedQuote(s, i) == i < Len(s) /\ s[i + 1] = Quote

\* the for loop over the characters, and the final row.push / rows.push
RECURSIVE Scan(_, _, _, _, _, _)
Scan(s, i, rws, row, field, inQuotes) ==
  IF i > Len(s) THEN Append(rws, Append(row, field))
  ELSE
    LET c == s[i] IN
    IF inQuotes
      THEN IF c = Quote
             THEN IF EscapedQuote(s, i)
                    THEN Scan(s, i + 2, rws, row, Append(field, Quote), TRUE)
                    ELSE Scan(s, i + 1, rws, row, field, FALSE)
             ELSE Scan(s, i + 1, rws, row, Append(field, c), TRUE)
    ELSE IF c = Quote THEN Scan(s, i + 1, rws, row, field, TRUE)
    ELSE IF c = Comma THEN Scan(s, i + 1, rws, Append(row, field), <<>>, FALSE)
    ELSE IF c = LF
      THEN Scan(s, i + 1, Append(rws, Append(row, field)), <<>>, <<>>, FALSE)
    ELSE Scan(s, i + 1, rws, row, Append(field, c), FALSE)

\* r.some((v) => String(v ?? "").trim() !== "")
NotBlankRow(r) == \E k \in DOMAIN r : Trim(r[k]) # <<>>

\* obj[header[i]] = String(cols[i] ?? "").trim(), for i in header order: a
\* name that occurs twice keeps its last column
RowObject(header, cols) ==
  [h \in {header[k] : k \in DOMAIN header} |->
     LET last == CHOOSE k \in DOMAIN header :
                   header[k] = h /\ \A n \in DOMAIN header : header[n] = h => n <= k
     IN IF last <= Len(cols) THEN Trim(cols[last]) ELSE <<>>]

parseCsv(t) ==
  LET s == NormalizeNewlines(t) IN
  IF Trim(s) = <<>> THEN <<>>
  ELSE
    LET clean == SelectSeq(Scan(s, 1, <<>>, <<>>, <<>>, FALSE), NotBlankRow) IN
    IF Len(clean) < 2 THEN <<>>
    ELSE
      LET header == [k \in DOMAIN clean[1] |-> Trim(clean[1][k])] IN
      [n \in 1..(Len(clean) - 1) |-> RowObject(header, clean[n + 1])]

\* handleParseCsv: String(r.member_id || "").trim() and its three siblings
ReadCell(obj, name) ==
  IF <<name>> \in DOMAIN obj THEN Trim(obj[<<name>>]) ELSE <<>>
ReadRows(objs) ==
  [k \in DOMAIN objs |->
     [member_id |-> ReadCell(objs[k], "member_id"),
      branch |-> ReadCell(objs[k], "branch"),
      amount |-> ReadCell(objs[k], "amount"),
      year |-> ReadCell(objs[k], "year")]]

\* Uploaded texts.  A sheet is lines of fields; a field is written bare or
\* between quotes with its quotes doubled, fields are joined by commas and
\* lines by the sheet's newline.
Field(quoted, body) == [quoted |-> quoted, body |-> body]
Bare(c) == Field(FALSE, <<c>>)
SeqsUpTo(A, n) == UNION {[1..k -> A] : k \in 0..n}
Fields ==
  {Field(TRUE, b) : b \in SeqsUpTo({"a", Blank, Comma, LF, Quote}, MaxFieldLen)}
  \cup {Field(FALSE, b) : b \in SeqsUpTo({"a", Blank}, MaxFieldLen)}
BlankLines ==
  {<<Field(FALSE, <<>>)>>, <<Field(FALSE, <<>>), Field(FALSE, <<>>)>>,
   <<Field(FALSE, <<Blank>>)>>, <<Field(TRUE, <<>>)>>}
Optional(S) == {<<>>} \cup {<<x>> : x \in S}

\* header name,amount; an optional blank line before it; then an optional data
\* line with any field in the name column, an optional blank line, and an
\* optional last data line
NameLines ==
  {lead \o <<(<<Bare("name"), Bare("amount")>>)>> \o first \o gap \o last :
     lead \in Optional(BlankLines),
     first \in Optional({<<f, Bare("v")>> : f \in Fields}),
     gap \in Optional(BlankLines),
     last \in Optional({<<Bare("a"), Bare("v")>>})}

\* name,amount / "Doe, Jane",1234.50
ExampleLines ==
  <<(<<Bare("name"), Bare("amount")>>),
    (<<Field(TRUE, <<"Doe", Comma, Blank, "Jane">>), Bare("1234.50")>>)>>

\* the four import columns under a header in lower, upper or mixed case
HeaderNames ==
  {<<"member_id", "branch", "amount", "year">>,
   <<"MEMBER_ID", "BRANCH", "AMOUNT", "YEAR">>,
   <<"Member_ID", "Branch", "Amount", "Year">>}
ImportLines ==
  {<<[k \in 1..4 |-> Bare(h[k])],
     (<<Bare("m1"), Bare("b"), Bare("100"), Bare("2024")>>),
     (<<Bare("m2"), Bare("b"), Bare("100"), Bare("2024")>>)>> : h \in HeaderNames}

Sheets ==
  {[eol |-> e, lines |-> l] :
     e \in {<<LF>>, <<CR, LF>>},
     l \in NameLines \cup {ExampleLines} \cup ImportLines}

RECURSIVE DoubleQuotes(_)
DoubleQuotes(b) ==
  IF b = <<>> THEN <<>>
  ELSE (IF b[1] = Quote THEN <<Quote, Quote>> ELSE <<b[1]>>) \o DoubleQuotes(Tail(b))
WriteField(f) ==
  IF f.quoted THEN <<Quote>> \o DoubleQuotes(f.body) \o <<Quote>> ELSE f.body
RECURSIVE Join(_, _)
Join(parts, sep) ==
  IF parts = <<>> THEN <<>>
  ELSE IF Len(parts) = 1 THEN parts[1]
  ELSE parts[1] \o sep \o Join(Tail(parts), sep)
WriteLine(l) == Join([k \in DOMAIN l |-> WriteField(l[k])], <<Comma>>)
WriteSheet(sh) == Join([k \in DOMAIN sh.lines |-> WriteLine(sh.lines[k])], sh.eol)

InitSheets ==
  /\ InitPipeline /\ InitUpsert /\ InitContinue /\ InitCache /\ InitSide
  /\ sheet \in Sheets
  /\ text = WriteSheet(sheet)
  /\ decoded = NotDecoded

\* const rows = parseCsv(csvText)
Decode ==
  /\ ~decoded.done
  /\ decoded' = [done |-> TRUE, rows |-> parseCsv(text)]
  /\ UNCHANGED <<csv, stores, queue, pc, loc, ghosts,
                 upserts, cont, gen, tmplCache, fontCache, fetches, sheet, text, side>>

\* handleParseCsv: the INSERTs of the decoded rows
StoreDecoded ==
  /\ decoded.done
  /\ rows = <<>>
  /\ rows' = InsertRows(ReadRows(decoded.rows))
  /\ UNCHANGED <<csv, job, receipts, bucket, queue, pc, loc, ghosts, aux>>

NextCsv == Decode \/ StoreDecoded
SpecCsv == InitSheets /\ [][NextCsv]_vars

\* ---------------------------------------------------------------------
\* import/start statement by statement.  The request stores the upload,
\* inserts the job record, sets its phase and sends the parse_csv message;
\* an exception at any of them ends the request with a 500 answer.
\* ---------------------------------------------------------------------
\* the message sent before the job record is written
StartNextSendFirst(pos) ==
  CASE pos = "put" -> "send"
    [] pos = "send" -> "insert"
    [] pos = "insert" -> "phase"
    [] pos = "phase" -> "done"

\* the order of the awaited statements of the request
StartNext(pos) ==
  CASE pos = "put" -> "insert"
    [] pos = "insert" -> "phase"
    [] pos = "phase" -> "send"
    [] pos = "send" -> "done"

\* await env.RECEIPTS_BUCKET.put(csv_key, csvText, ...)
StartPut(uploads) ==
  /\ start = "idle"
  /\ job.status = "NONE"
  /\ \E data \in uploads : csv' = data
  /\ bucket' = bucket \cup {CsvKey}
  /\ start' = StartNext("put")
  /\ UNCHANGED <<job, rows, receipts, queue, pc, loc, ghosts,
                 upserts, cont, gen, tmplCache, fontCache, fetches, sheet, text, decoded, cons, mail>>

\* INSERT INTO receipt_import_job ... (?, ?, 0, 0, 0, 0, 0, 'RUNNING', ...)
StartInsertJob ==
  /\ start = "insert"
  /\ job' = [InsertJob(PeekYear(csv)) EXCEPT !.phase = "NONE"]
  /\ start' = StartNext("insert")
  /\ UNCHANGED <<csv, rows, receipts, bucket, queue, pc, loc, ghosts,
                 upserts, cont, gen, tmplCache, fontCache, fetches, sheet, text, decoded, cons, mail>>

\* UPDATE receipt_import_job SET phase='PARSING'
StartSetPhase ==
  /\ start = "phase"
  /\ job' = [job EXCEPT !.phase = "PARSING"]
  /\ start' = StartNext("phase")
  /\ UNCHANGED <<csv, rows, receipts, bucket, queue, pc, loc, ghosts,
                 upserts, cont, gen, tmplCache, fontCache, fetches, sheet, text, decoded, cons, mail>>

\* await env.IMPORT_Q.send({ type: "parse_csv", job_id })
StartSend ==
  /\ start = "send"
  /\ queue' = [queue EXCEPT !["parse_csv"] = @ + 1]
  /\ sent' = sent \cup {"parse_csv"}
  /\ start' = StartNext("send")
  /\ UNCHANGED <<csv, stores, pc, loc, hsGets, puts, counted, lastOut, overlap,
                 requeues, dups, crashes, earlyReturns, probes,
                 upserts, cont, gen, tmplCache, fontCache, fetches, sheet, text, decoded, cons, mail>>

\* catch (e): the request answers server_error; what was written stays
StartFail ==
  /\ start \in {"insert", "phase", "send"}
  /\ start' = "failed"
  /\ UNCHANGED <<csv, stores, queue, pc, loc, ghosts,
                 upserts, cont, gen, tmplCache, fontCache, fetches, sheet, text, decoded, cons, mail>>

NextStart ==
  \/ StartPut(RedeliverCsvs)
  \/ StartInsertJob
  \/ StartSetPhase
  \/ StartSend
  \/ StartFail
  \/ \E t \in MsgTypes : AllIdle /\ Deliver(1, t)
  \/ Step(1, HsOutcomes, {})
  \/ Crash(1)

SpecStart == Init /\ [][NextStart]_vars

\* ---------------------------------------------------------------------
\* queue(batch, env, ctx): the consumer walks the messages of a delivered
\* batch in order; each message is handled inside its own try/catch.
\* ---------------------------------------------------------------------
MaxBatch == 2
JobId == "j"
\* bodies a message can carry: a type of the pipeline or another one, with
\* the job's id or without one
Bodies == {[type |-> t, job_id |-> j] : t \in MsgTypes \cup {"other"}, j \in {"", JobId}}
Batches == UNION {[1..n -> Bodies] : n \in 1..MaxBatch}

\* if (!job_id) { msg.ack(); continue; } ... dispatch on type ... msg.ack()
HasHandler(m) == m.job_id # "" /\ m.type \in MsgTypes

\* messages of the batch that the consumer hands to the handler of type t
Handled(msgs, t) == Cardinality({k \in DOMAIN msgs : HasHandler(msgs[k]) /\ msgs[k].type = t})

\* the platform delivers a batch: the pipeline's messages in it leave the queue
BatchDeliver ==
  /\ cons = ConsIdle
  /\ AllIdle
  /\ \E msgs \in Batches :
       /\ \A t \in MsgTypes : Handled(msgs, t) <= queue[t]
       /\ queue' = [t \in MsgTypes |-> queue[t] - Handled(msgs, t)]
       /\ cons' = [ConsIdle EXCEPT !.msgs = msgs,
                                   !.marks = [k \in DOMAIN msgs |-> "none"]]
  /\ UNCHANGED <<csv, stores, pc, loc, ghosts, upserts, cont, gen, tmplCache,
                 fontCache, fetches, sheet, text, decoded, start, mail>>

\* the head of the loop body: ack and continue, or call the handler
BatchDispatch ==
  /\ ~cons.busy
  /\ cons.i <= Len(cons.msgs)
  /\ LET m == cons.msgs[cons.i] IN
       IF HasHandler(m)
         THEN /\ pc' = [pc EXCEPT ![1] = IF m.type = "parse_csv" THEN "parse_load"
                                          ELSE "pr_load"]
              /\ loc' = [loc EXCEPT ![1] = [Idle EXCEPT !.type = m.type]]
              /\ cons' = [cons EXCEPT !.busy = TRUE, !.thrown = crashes]
         ELSE /\ cons' = [cons EXCEPT !.marks[cons.i] = "ack", !.i = @ + 1]
              /\ UNCHANGED <<pc, loc>>
  /\ UNCHANGED <<csv, stores, queue, ghosts, upserts, cont, gen, tmplCache,
                 fontCache, fetches, sheet, text, decoded, start, mail>>

\* the try/catch around the whole loop: a handler that throws ends the walk
BatchSettleLeaveLoop ==
  /\ cons.busy
  /\ pc[1] = "idle"
  /\ cons' = IF crashes > cons.thrown
               THEN [cons EXCEPT !.marks[cons.i] = "retry", !.busy = FALSE,
                                 !.i = Len(cons.msgs) + 1]
               ELSE [cons EXCEPT !.marks[cons.i] = "ack", !.busy = FALSE, !.i = @ + 1]
  /\ UNCHANGED <<csv, stores, queue, pc, loc, ghosts, upserts, cont, gen, tmplCache,
                 fontCache, fetches, sheet, text, decoded, start, mail>>

\* the handler returned: msg.ack(); it threw: catch (e) { msg.retry(); };
\* then the next message of the batch
BatchSettle ==
  /\ cons.busy
  /\ pc[1] = "idle"
  /\ cons' = [cons EXCEPT !.marks[cons.i] = IF crashes > cons.thrown THEN "retry"
                                             ELSE "ack",
                          !.busy = FALSE, !.i = @ + 1]
  /\ UNCHANGED <<csv, stores, queue, pc, loc, ghosts, upserts, cont, gen, tmplCache,
                 fontCache, fetches, sheet, text, decoded, start, mail>>

\* the job the messages are about: an upload of one valid row
QueueCsvs == {<<CsvRow("m1")>>}

\* the loop is through: queue() returns
BatchReturn ==
  /\ cons.msgs # <<>>
  /\ cons.i > Len(cons.msgs)
  /\ cons' = ConsIdle
  /\ UNCHANGED <<csv, stores, queue, pc, loc, ghosts, upserts, cont, gen, tmplCache,
                 fontCache, fetches, sheet, text, decoded, start, mail>>

NextQueue ==
  \/ ImportStart(QueueCsvs)
  \/ BatchDeliver
  \/ BatchDispatch
  \/ Step(1, HsOutcomes, {})
  \/ Crash(1)
  \/ BatchSettle
  \/ BatchReturn
  \/ Duplicate("process_rows")

SpecQueue == Init /\ [][NextQueue]_vars

\* ---------------------------------------------------------------------
\* The bulk email job: email/job/start and email/job/continue in mode
\* 'unsent'.  The DONE receipt records of the job's year and branch stand in
\* the order of the query (branch, name, member_id): annual[k] is the k-th.
\* One request is one step; requests do not overlap.
\* ---------------------------------------------------------------------
MaxTargets == 3
\* clampInt(batch, 1, 100, 25) on the request values 1 and 2
MailBatches == {1, 2}
\* what happens to one record of the list: no email address is found, the
\* send succeeds, or the send throws
MailOutcomes == {"noemail", "sent", "failed"}

\* ... AND (email_sent_at IS NULL OR TRIM(email_sent_at)='') ORDER BY ...:
\* the positions of the records not yet sent, in order
Unsent(annual) == SortedSeq({k \in DOMAIN annual : ~annual[k].sent})

\* ... LIMIT ? OFFSET ?  bound to (batch, start)
Page(annual, batch, from) ==
  LET u == Unsent(annual) IN SubSeq(u, from + 1, Min(Len(u), from + batch))

\* the UPDATE of receipt_annual after the attempt for a record
Mailed(rec, out) ==
  CASE out = "sent" -> [sent |-> TRUE, email_status |-> "SENT"]
    [] out = "failed" -> [rec EXCEPT !.email_status = "FAILED"]
    [] out = "noemail" -> [rec EXCEPT !.email_status = "NEEDS_EMAIL"]

\* POST email/job/start: counts the targets and inserts the job, READY
EmailJobStart ==
  /\ mail.status = "NONE"
  /\ \E n \in 0..MaxTargets, before \in {{}, {1}} :
       LET annual == [k \in 1..n |-> [sent |-> k \in before, email_status |-> "none"]]
           targets == {k \in 1..n : ~annual[k].sent}
       IN mail' = [NoMail EXCEPT !.status = "READY", !.annual = annual,
                                 !.targets = targets,
                                 !.total_targets = Cardinality(targets)]
  /\ UNCHANGED <<csv, stores, queue, pc, loc, ghosts, upserts, cont, gen, tmplCache,
                 fontCache, fetches, sheet, text, decoded, start, cons>>

\* POST email/job/continue
EmailJobContinue ==
  /\ mail.status # "NONE"
  /\ IF mail.status = "DONE"
       THEN mail' = [mail EXCEPT !.answer = "done", !.sends = 0]
     ELSE IF mail.status = "CANCELED"
       THEN mail' = [mail EXCEPT !.answer = "job_canceled", !.sends = 0]
     ELSE
       \E batch \in MailBatches :
         LET list == Page(mail.annual, batch, mail.next_index) IN
         \E out \in [DOMAIN list -> MailOutcomes] :
           LET ok == Cardinality({k \in DOMAIN list : out[k] = "sent"})
               att == Cardinality({k \in DOMAIN list : out[k] # "noemail"})
               pos(k) == CHOOSE n \in DOMAIN list : list[n] = k
           IN mail' = [mail EXCEPT
                 !.annual = [k \in DOMAIN mail.annual |->
                               IF \E n \in DOMAIN list : list[n] = k
                                 THEN Mailed(mail.annual[k], out[pos(k)])
                                 ELSE mail.annual[k]],
                 !.tried = @ \cup {list[n] : n \in DOMAIN list},
                 !.sent_ok = @ + ok,
                 !.sent_ng = @ + (Len(list) - ok),
                 !.next_index = @ + Len(list),
                 !.status = IF Len(list) < batch THEN "DONE" ELSE "RUNNING",
                 !.answer = "ran",
                 !.sends = att]
  /\ UNCHANGED <<csv, stores, queue, pc, loc, ghosts, upserts, cont, gen, tmplCache,
                 fontCache, fetches, sheet, text, decoded, start, cons>>

\* the worker has no request that cancels a job: the status is set in the
\* table from outside
EmailJobCancel ==
  /\ mail.status \in {"READY", "RUNNING"}
  /\ mail' = [mail EXCEPT !.status = "CANCELED"]
  /\ UNCHANGED <<csv, stores, queue, pc, loc, ghosts, upserts, cont, gen, tmplCache,
                 fontCache, fetches, sheet, text, decoded, start, cons>>

NextMail ==
  \/ EmailJobStart
  \/ EmailJobContinue
  \/ EmailJobCancel

SpecMail == Init /\ [][NextMail]_vars

\* ---------------------------------------------------------------------
\* Properties
\* ---------------------------------------------------------------------
\* the fallback of handleProcessRows never finds a PENDING row below the cursor
NoReselect == \A p \in Procs : pc[p] # "pr_reselect"

RowStatus(idx) == rows[idx + 1].status
Terminal(idx) == idx + 1 \in DOMAIN rows /\ RowStatus(idx) # "PENDING"
JobFinished == job.status = "DONE" /\ job.next_index = job.total_rows

\* C1: an invocation of handleProcessRows that finds the job DONE returns at
\* once: the job record, every row, every receipt record and every stored
\* object stay as they are, no Directory call is made and nothing is enqueued.
C1_DoneJobIsNoOp ==
  [][\A p \in Procs :
       (pc[p] = "pr_load" /\ pc'[p] # "pr_load" /\ crashes' = crashes
          /\ job.status = "DONE")
       => /\ pc'[p] = "idle"
          /\ UNCHANGED <<job, rows, receipts, bucket, queue, hsGets, puts,
                         counted, requeues>>]_vars

C1_Witness == earlyReturns > 0 /\ job.status = "DONE" /\ job.total_rows > 0

\* C2: after an invocation aborted with some rows already written, the next
\* batch starts at the first row that is still PENDING and claims no row that
\* was already processed; and a job that exists is eventually DONE with
\* next_index = total_rows.
C2_Resumability ==
  /\ [][\A p \in Procs :
          (pc[p] \in {"pr_select", "pr_reselect"} /\ pc'[p] = "pr_loop")
          => /\ RowStatus(loc'[p].list[1]) = "PENDING"
             /\ \A idx \in 0..(loc'[p].list[1] - 1) : RowStatus(idx) # "PENDING"
             /\ \A k \in DOMAIN loc'[p].list : ~Terminal(loc'[p].list[k])]_vars
  /\ (job.status # "NONE") ~> JobFinished

C2_Witness ==
  /\ crashes > 0
  /\ JobFinished
  /\ job.ok_rows + job.ng_rows < job.total_rows

\* C3: with invocations that do not overlap, a row that has left PENDING is
\* never claimed again, gets no further Directory lookup and no further
\* artifact write, and is added to ok_rows/ng_rows at most once.
C3_TerminalRowNotReprocessed ==
  /\ [][\A idx \in RowIdx :
          Terminal(idx) =>
            /\ hsGets'[idx] = hsGets[idx]
            /\ puts'[idx] = puts[idx]
            /\ \A p \in Procs :
                 loc'[p].list # loc[p].list =>
                   \A k \in DOMAIN loc'[p].list : loc'[p].list[k] # idx]_vars
  /\ [](\A idx \in RowIdx : counted[idx] <= 1)

C3_Witness ==
  /\ dups > 0
  /\ pc[1] = "pr_loop"
  /\ loc[1].i = 1
  /\ queue["process_rows"] > 0
  /\ \E idx \in RowIdx : Terminal(idx) /\ idx < loc[1].list[1] /\ hsGets[idx] = 1

RowKey(idx) == [year |-> RowYear(csv[idx + 1], job.year),
                member_id |-> csv[idx + 1].member_id]

\* C4: repeating the steps of a row after an abort leaves one receipt record
\* per (year, member_id), the artifact of every DONE row under its key, and
\* the row status that the row's latest Directory answer gives.
C4_RepeatSafe ==
  /\ \A r1, r2 \in receipts : SameKey(r1, r2) => r1 = r2
  /\ \A idx \in RowIdx : Terminal(idx) =>
       /\ RowStatus(idx) = "DONE" =>
            /\ PdfKey(RowKey(idx).member_id, RowKey(idx).year) \in bucket
            /\ \E r \in receipts : SameKey(r, RowKey(idx))
            /\ lastOut[idx] = "ok"
       /\ RowStatus(idx) = "NEEDS_EMAIL" =>
            /\ \E r \in receipts : SameKey(r, RowKey(idx))
            /\ lastOut[idx] = "noemail"
       /\ RowStatus(idx) = "ERROR" =>
            \/ RowInvalid(csv[idx + 1], job.year) /\ hsGets[idx] = 0
            \/ lastOut[idx] = "fail"

C4_Witness ==
  /\ crashes > 0
  /\ \E idx \in RowIdx :
       /\ Terminal(idx)
       /\ RowStatus(idx) = "DONE"
       /\ puts[idx] = 2
       /\ Cardinality({r \in receipts : SameKey(r, RowKey(idx))}) = 1

AllLookupsFail == \A idx \in RowIdx : lastOut[idx] \in {"none", "fail"}
AllRowsError == \A k \in DOMAIN rows : rows[k].status = "ERROR"

\* C5: if every Directory lookup fails the job still ends: every row is ERROR
\* and the job is DONE; handleProcessRows requeues itself at most total_rows
\* times.
C5_ForwardProgress ==
  /\ ([]AllLookupsFail) =>
       ((job.status # "NONE") ~> (job.status = "DONE" /\ AllRowsError
                                   /\ Len(rows) = job.total_rows))
  /\ [](requeues <= job.total_rows)

C5_Witness ==
  /\ AllLookupsFail
  /\ job.status = "DONE"
  /\ AllRowsError
  /\ Len(rows) = MaxLiveRows
  /\ requeues > 1
  /\ \A k \in DOMAIN rows : RowInvalid(csv[k], job.year) \/ hsGets[k - 1] > 0
  /\ Cardinality({k \in DOMAIN rows : hsGets[k - 1] > 0}) > 1

\* C6: no lease protects a job: a row is looked up, written or counted more
\* than once only when an invocation claimed it while another invocation
\* still held it; and that does happen (C6_Witness).
C6_DoubleProcessingOnlyByOverlap ==
  \A idx \in RowIdx :
    (hsGets[idx] > 1 \/ puts[idx] > 1 \/ counted[idx] > 1) => idx \in overlap

C6_Witness ==
  \E idx \in RowIdx :
    /\ idx \in overlap
    /\ hsGets[idx] = 2
    /\ puts[idx] = 2
    /\ counted[idx] = 2
    /\ job.ok_rows + job.ng_rows > job.total_rows

\* C7: the stored next_index of a job never decreases.
C7_CursorNeverDecreases == [][job'.next_index >= job.next_index]_vars

C9_CountersWithinProcessed == job.ok_rows + job.ng_rows <= job.processed_rows

\* C10 as stated: the job is DONE exactly when next_index = total_rows.
C10_DoneIffCursorAtTotal ==
  job.status # "NONE" =>
    ((job.status = "DONE") <=> (job.next_index = job.total_rows))

\* C10 amended: a DONE job has next_index = total_rows.
C10_DoneImpliesCursorAtTotal ==
  job.status = "DONE" =>
    (job.next_index = job.total_rows /\ job.processed_rows = job.total_rows)

C10_Witness ==
  /\ job.status = "DONE"
  /\ job.total_rows > 1
  /\ job.next_index = job.total_rows
  /\ requeues > 0

ParseCompleted == "process_rows" \in sent
SameCells(row, r) ==
  /\ row.member_id = r.member_id
  /\ row.branch = r.branch
  /\ row.amount = r.amount
  /\ row.year = r.year

\* C11: once handleParseCsv has completed for a job, no step of the pipeline
\* deletes or re-creates a row or returns a processed row to PENDING: the
\* rows keep their number and their cells, and a row that has left PENDING
\* stays out of PENDING.
C11_RowsOnlyChangeStatus ==
  [][ParseCompleted =>
       /\ Len(rows') = Len(rows)
       /\ \A k \in DOMAIN rows :
            /\ SameCells(rows'[k], rows[k])
            /\ rows[k].status # "PENDING" => rows'[k].status # "PENDING"]_vars

LookedUp(idx) == hsGets'[idx] = hsGets[idx] + 1

\* C13: a transient Directory failure leaves the row PENDING.
C13_TransientLeavesPending ==
  [][\A idx \in RowIdx :
       (LookedUp(idx) /\ lastOut'[idx] = "transient")
       => rows'[idx + 1].status = "PENDING"]_vars

\* missing member_id, unparsable amount or unparsable year
Malformed(r) ==
  \/ r.member_id = ""
  \/ parseMoneyToCents(r.amount) = NoNum
  \/ normYear(r.year) = NoNum

\* C14: a malformed row gets no Directory lookup, no write-back and no
\* artifact, and once it has left PENDING it is ERROR with invalid_row.
C14_MalformedRowIsInvalid ==
  \A idx \in RowIdx :
    (idx + 1 \in DOMAIN rows /\ Malformed(csv[idx + 1]))
    => /\ hsGets[idx] = 0
       /\ patches[idx] = 0
       /\ puts[idx] = 0
       /\ Terminal(idx) =>
            (RowStatus(idx) = "ERROR" /\ rows[idx + 1].error = "invalid_row")

\* C15: in the step where the lookup of a row fails, the row becomes ERROR
\* with hubspot_not_found and a receipt record of the row's (year, member_id)
\* carries that error.
C15_FailedLookupPersistsRecord ==
  [][\A idx \in RowIdx :
       (LookedUp(idx) /\ LookupFailed(lastOut'[idx]))
       => /\ rows'[idx + 1].status = "ERROR"
          /\ rows'[idx + 1].error = "hubspot_not_found"
          /\ \E r \in receipts' :
               SameKey(r, RowKey(idx)) /\ r.error = "hubspot_not_found"]_vars

\* the row invocation p is working on
CurrentRow(p) == loc[p].list[loc[p].i]

\* C16: when a row resolves without a valid email, a receipt record of its
\* (year, member_id) with an empty artifact key and error missing_email is
\* written and the row is counted as not good; then the row becomes
\* NEEDS_EMAIL and the loop goes on to the next row; no write-back and no
\* artifact is made in either step; the batch update adds the count to ng_rows.
C16_NoEmailRow ==
  [][\A p \in Procs :
       /\ (pc[p] = "pr_loop" /\ pc'[p] = "pr_needs_email")
          => /\ \E r \in receipts' :
                  /\ SameKey(r, RowKey(CurrentRow(p)))
                  /\ r.pdf_key = ""
                  /\ r.status = "ERROR"
                  /\ r.error = "missing_email"
             /\ loc'[p].ng = loc[p].ng + 1
             /\ UNCHANGED <<patches, puts, bucket>>
       /\ (pc[p] = "pr_needs_email" /\ pc'[p] = "pr_loop")
          => /\ rows'[CurrentRow(p) + 1].status = "NEEDS_EMAIL"
             /\ rows'[CurrentRow(p) + 1].error = "missing_email"
             /\ loc'[p].i = loc[p].i + 1
             /\ UNCHANGED <<patches, puts, bucket>>
       /\ (pc[p] = "pr_persist" /\ pc'[p] = "pr_count")
          => job'.ng_rows = job.ng_rows + loc[p].ng]_vars

C16_Witness ==
  \E idx \in RowIdx :
    /\ idx + 1 \in DOMAIN rows
    /\ RowStatus(idx) = "NEEDS_EMAIL"
    /\ patches[idx] = 0
    /\ puts[idx] = 0
    /\ counted[idx] = 1
    /\ job.ng_rows > 0
    /\ \E r \in receipts :
         SameKey(r, RowKey(idx)) /\ r.pdf_key = "" /\ r.error = "missing_email"

\* C17: a failed write-back does not block the row: in that step the artifact
\* is stored under the row's key, and for a row whose write-back failed the
\* following steps upsert a DONE receipt record with that key, mark the row
\* DONE and count it as ok; the batch update adds the count to ok_rows.
C17_PatchFailureNonBlocking ==
  [][\A p \in Procs :
       /\ (pc[p] = "pr_put" /\ patches' # patches /\ genFails' = genFails
             /\ CurrentRow(p) \in patchFails')
          => /\ pc'[p] = "pr_upsert"
             /\ puts'[CurrentRow(p)] = puts[CurrentRow(p)] + 1
             /\ PdfKey(RowKey(CurrentRow(p)).member_id, RowKey(CurrentRow(p)).year)
                  \in bucket'
       /\ (pc[p] = "pr_upsert" /\ CurrentRow(p) \in patchFails)
          => /\ pc'[p] = "pr_mark"
             /\ \E r \in receipts' :
                  /\ SameKey(r, RowKey(CurrentRow(p)))
                  /\ r.status = "DONE"
                  /\ r.pdf_key = PdfKey(r.member_id, r.year)
       /\ (pc[p] = "pr_mark" /\ CurrentRow(p) \in patchFails)
          => /\ rows'[CurrentRow(p) + 1].status = "DONE"
             /\ loc'[p].ok = loc[p].ok + 1
       /\ (pc[p] = "pr_persist" /\ pc'[p] = "pr_count")
          => job'.ok_rows = job.ok_rows + loc[p].ok]_vars

C17_Witness ==
  \E idx \in patchFails :
    /\ RowStatus(idx) = "DONE"
    /\ puts[idx] = 1
    /\ counted[idx] = 1
    /\ job.ok_rows > 0
    /\ job.status = "DONE"
    /\ \E r \in receipts : SameKey(r, RowKey(idx)) /\ r.status = "DONE"

\* C18: when generateReceiptPdf cannot load the template or the font, the
\* invocation ends in that step: the message is put back for a retry, the
\* current row and the rows after it in the batch are still PENDING, nothing
\* is written, and the job record keeps status RUNNING.
C18_MissingTemplateIsFatal ==
  [][\A p \in Procs :
       (pc[p] = "pr_put" /\ genFails' # genFails)
       => /\ pc'[p] = "idle"
          /\ queue'["process_rows"] = queue["process_rows"] + 1
          /\ \A k \in DOMAIN loc[p].list :
               k >= loc[p].i => rows'[loc[p].list[k] + 1].status = "PENDING"
          /\ UNCHANGED <<stores, hsGets, puts, counted>>
          /\ job'.status = "RUNNING"]_vars

C18_Witness ==
  /\ genFails > 0
  /\ pc[1] = "idle"
  /\ queue["process_rows"] > 0
  /\ job.status = "RUNNING"
  /\ job.ok_rows + job.ng_rows = 0
  /\ \E i, j \in RowIdx :
       /\ j + 1 \in DOMAIN rows
       /\ i < j
       /\ Terminal(i)
       /\ RowStatus(j) = "PENDING"
       /\ lastOut[j] = "ok"

\* the upload decodes to no data row, or no row has a member_id (the header
\* has no member_id column)
FatalInput == Len(csv) = 0 \/ \A k \in DOMAIN csv : csv[k].member_id = ""

\* C19: a job whose CSV has no data row or no member_id column never reaches
\* DONE and none of its rows is processed.
C19_FatalInputAborts ==
  (job.status # "NONE" /\ FatalInput)
  => /\ job.status # "DONE"
     /\ \A k \in DOMAIN rows : rows[k].status = "PENDING"

\* C20: the loop never takes up a row with a smaller row_index than a row it
\* took up before, in the same or in an earlier invocation.
C20_RowOrder == [][lastRow' >= lastRow]_vars

\* ---------------------------------------------------------------------
\* C21: upsertAnnual is a last-write-wins upsert on (year, member_id): a
\* store built by any sequence of upserts holds at most one record per key;
\* upserting a record leaves exactly that record under its key, with all its
\* columns, and every other key as it was; upserting it again changes nothing.
\* ---------------------------------------------------------------------
C21_UpsertLastWriteWins ==
  /\ \A r1, r2 \in receipts : SameKey(r1, r2) => r1 = r2
  /\ \A rec \in UpsertRecs :
       LET after == upsertAnnual(receipts, rec) IN
         /\ rec \in after
         /\ \A r \in after : SameKey(r, rec) => r = rec
         /\ {r \in after : ~SameKey(r, rec)} = {r \in receipts : ~SameKey(r, rec)}
         /\ upsertAnnual(after, rec) = after

\* some upsert met a conflict, and two keys are in the store
C21_Witness == upserts > Cardinality(receipts) /\ Cardinality(receipts) >= 2

\* ---------------------------------------------------------------------
\* C22: within one handleProcessRows invocation at most one Directory lookup
\* is made per distinct member_id: a row is looked up only if no earlier row
\* of the same batch with the same member_id was looked up.
\* ---------------------------------------------------------------------
\* rows of p's batch, before the current one, that p looked up: every row the
\* loop took up and found valid
LookedUpBefore(p) ==
  {loc[p].list[k] : k \in {n \in 1..(loc[p].i - 1) :
                              ~RowInvalid(csv[loc[p].list[n] + 1], loc[p].year)}}

C22_LookupsMemoized ==
  [][\A p \in Procs :
       (/\ pc[p] = "pr_loop"
        /\ loc[p].i <= Len(loc[p].list)
        /\ LookedUp(CurrentRow(p)))
       => \A idx \in LookedUpBefore(p) :
            csv[idx + 1].member_id # csv[CurrentRow(p) + 1].member_id]_vars

\* ---------------------------------------------------------------------
\* C23: one import/continue request makes at most HS_LIMIT Directory calls,
\* lookups and write-backs together; when the cap is met at a row that needs
\* a lookup, that turn writes no receipt record and counts nothing, and the
\* job update of the request stores next_index = processed_rows = the index
\* of that row, with ok and ng covering exactly the rows before it.
\* ---------------------------------------------------------------------
CapStep == cont.pc = "loop" /\ cont'.capped >= 0

C23_DirectoryCallsCapped ==
  /\ [](cont.calls <= HS_LIMIT)
  /\ [][CapStep =>
          /\ cont'.capped = cont.i
          /\ receipts' = receipts
          /\ bucket' = bucket
          /\ <<cont'.ok, cont'.ng, cont'.processed>> = <<cont.ok, cont.ng, cont.processed>>
          /\ cont.ok + cont.ng = cont.i - cont.start]_vars
  /\ [][(cont.pc = "persist" /\ cont.capped >= 0 /\ cont'.pc = "idle") =>
          /\ job'.next_index = cont.capped
          /\ job'.processed_rows = cont.capped
          /\ job'.ok_rows + job'.ng_rows =
               job.ok_rows + job.ng_rows + (cont.capped - cont.start)
          /\ job'.status = "RUNNING"]_vars

\* a request that met the cap has stored its progress
C23_Witness ==
  /\ cont.pc = "idle"
  /\ cont.capped >= 0
  /\ cont.calls = HS_LIMIT
  /\ job.next_index = cont.capped

\* ---------------------------------------------------------------------
\* C24: in one process lifetime the template and the font are each read from
\* the Object Store at most once, whatever the interleaving of the calls of
\* generateReceiptPdf, and a cache that has been loaded is never assigned
\* again.
\* ---------------------------------------------------------------------
C24_CachesLoadedOnce ==
  /\ [](fetches.tmpl <= 1 /\ fetches.font <= 1)
  /\ [][/\ tmplCache # Unloaded => tmplCache' = tmplCache
        /\ fontCache # Unloaded => fontCache' = fontCache]_vars

\* ---------------------------------------------------------------------
\* C25: parseCsv decodes what was written: a comma, a newline or a quote
\* inside a quoted field comes back as content of that field (fields are
\* trimmed at both ends), lines whose fields are all blank are dropped
\* wherever they stand, and the text name,amount / "Doe, Jane",1234.50 gives
\* exactly one row whose name is Doe, Jane.
\* ---------------------------------------------------------------------
\* the rows a sheet stands for: its lines that are not blank, the first of
\* them as column names
SheetRows(sh) ==
  LET kept == SelectSeq(sh.lines,
                LAMBDA l : \E k \in DOMAIN l : Trim(l[k].body) # <<>>)
  IN IF Len(kept) < 2 THEN <<>>
     ELSE [n \in 1..(Len(kept) - 1) |->
             RowObject([k \in DOMAIN kept[1] |-> Trim(kept[1][k].body)],
                       [k \in DOMAIN kept[n + 1] |-> kept[n + 1][k].body])]

C25_QuotedFieldsAndBlankRows ==
  decoded.done =>
    /\ decoded.rows = SheetRows(sheet)
    /\ sheet.lines = ExampleLines =>
         /\ Len(decoded.rows) = 1
         /\ decoded.rows[1][<<"name">>] = <<"Doe", Comma, Blank, "Jane">>
         /\ decoded.rows[1][<<"amount">>] = <<"1234.50">>

\* a quoted field with a comma, a newline and a quote in it was decoded from a
\* sheet that also has a blank line
C25_Witness ==
  /\ decoded.done
  /\ Len(decoded.rows) = 2
  /\ \E l \in DOMAIN sheet.lines : sheet.lines[l] \in BlankLines
  /\ \E c \in {Comma, LF, Quote} : decoded.rows[1][<<"name">>] = <<c, "a">>

\* ---------------------------------------------------------------------
\* C26: header names are matched without regard to letter case: a CSV is
\* decoded and stored exactly like the same CSV with its header in lower
\* case.
\* ---------------------------------------------------------------------
LowerCase(c) ==
  CASE c \in {"MEMBER_ID", "Member_ID"} -> "member_id"
    [] c \in {"BRANCH", "Branch"} -> "branch"
    [] c \in {"AMOUNT", "Amount"} -> "amount"
    [] c \in {"YEAR", "Year"} -> "year"
    [] OTHER -> c
LowerHeader(sh) ==
  [sh EXCEPT !.lines[1] =
     [k \in DOMAIN @ |-> Field(@[k].quoted, [n \in DOMAIN @[k].body |-> LowerCase(@[k].body[n])])]]

C26_HeaderCaseInsensitive ==
  /\ decoded.done /\ sheet.lines # <<>> =>
       ReadRows(decoded.rows) = ReadRows(parseCsv(WriteSheet(LowerHeader(sheet))))
  /\ rows # <<>> /\ sheet.lines # <<>> =>
       rows = InsertRows(ReadRows(parseCsv(WriteSheet(LowerHeader(sheet)))))

\* ---------------------------------------------------------------------
\* C27: the batch of a handleProcessRows invocation is the first rows, at
\* most BATCH, in ascending row_index, that are PENDING at or after
\* next_index; when there is none it is taken again from the smallest
\* row_index still PENDING; and when no row is PENDING the job is marked DONE
\* with next_index = processed_rows = total_rows and no row is touched.
\* ---------------------------------------------------------------------
IsPending(rws, idx) == idx + 1 \in DOMAIN rws /\ rws[idx + 1].status = "PENDING"

IsBatch(list, rws, from) ==
  /\ Len(list) <= BATCH
  /\ \A k \in DOMAIN list : list[k] >= from /\ IsPending(rws, list[k])
  /\ \A k \in 1..(Len(list) - 1) : list[k] < list[k + 1]
  /\ \A idx \in RowIdx :
       (idx >= from /\ IsPending(rws, idx) /\ \A k \in DOMAIN list : list[k] # idx)
         => Len(list) = BATCH /\ idx > list[BATCH]

SetMax(S) == CHOOSE x \in S : \A y \in S : y <= x
ProcessedRows(p) == {loc[p].done[k] : k \in DOMAIN loc[p].done}
\* what the step of p wrote to row idx, if the row is there
Wrote(idx, st, errs) ==
  idx + 1 \in DOMAIN rows' =>
    rows'[idx + 1].status = st /\ rows'[idx + 1].error \in errs

C28_ProgressPersisted ==
  [][\A p \in Procs :
       /\ \A idx \in RowIdx :
            loc'[p].done = Append(loc[p].done, idx) =>
              /\ idx \notin ProcessedRows(p)
              /\ \/ /\ loc'[p].ok = loc[p].ok + 1 /\ loc'[p].ng = loc[p].ng
                    /\ pc[p] = "pr_mark"
                    /\ idx + 1 \in DOMAIN rows' => rows'[idx + 1].status = "DONE"
                 \/ /\ loc'[p].ng = loc[p].ng + 1 /\ loc'[p].ok = loc[p].ok
                    /\ pc[p] = "pr_loop"
                    /\ \/ Wrote(idx, "ERROR", {"invalid_row", "hubspot_not_found"})
                       \/ pc'[p] = "pr_needs_email"
       /\ (pc[p] = "pr_needs_email" /\ pc'[p] = "pr_loop") =>
            /\ Wrote(loc[p].list[loc[p].i], "NEEDS_EMAIL", {"missing_email"})
            /\ <<loc'[p].ok, loc'[p].ng, loc'[p].done>> = <<loc[p].ok, loc[p].ng, loc[p].done>>
       /\ (pc[p] = "pr_persist" /\ pc'[p] = "pr_count") =>
            LET S == ProcessedRows(p) IN
            /\ S # {} => job'.next_index = SetMax(S) + 1
            /\ loc[p].ok + loc[p].ng = Cardinality(S)
            /\ job'.ok_rows = job.ok_rows + loc[p].ok
            /\ job'.ng_rows = job.ng_rows + loc[p].ng
            /\ \A idx \in S : counted'[idx] = counted[idx] + 1
            /\ \A idx \in RowIdx \ S : counted'[idx] = counted[idx]]_vars

\* a batch with rows of both kinds was added to the counts of an earlier batch
C28_Witness ==
  /\ pc[1] = "pr_count"
  /\ loc[1].ok > 0
  /\ loc[1].ng > 0
  /\ job.ok_rows + job.ng_rows > loc[1].ok + loc[1].ng
  /\ job.next_index = SetMax(ProcessedRows(1)) + 1

\* ---------------------------------------------------------------------
\* C29: a handleProcessRows invocation that went through its loop ends in
\* exactly one of two ways: it counts the PENDING rows of the job and, if
\* there is one, sends exactly one process_rows message (type and job id,
\* no row data) and leaves the job as it is; otherwise it sets the job DONE
\* and sends nothing.
\* ---------------------------------------------------------------------
C29_RequeueOrFinalize ==
  [][\A p \in Procs :
       /\ (pc[p] = "pr_count" /\ pc'[p] = "pr_final") =>
            /\ loc'[p].left = Cardinality({idx \in RowIdx : IsPending(rows, idx)})
            /\ UNCHANGED <<job, queue, requeues>>
       /\ (pc[p] = "pr_final" /\ pc'[p] = "idle" /\ crashes' = crashes) =>
            IF loc[p].left > 0
              THEN /\ queue' = [queue EXCEPT !["process_rows"] = @ + 1]
                   /\ requeues' = requeues + 1
                   /\ job' = job
              ELSE /\ job'.status = "DONE"
                   /\ queue' = queue
                   /\ requeues' = requeues
       /\ (/\ pc[p] \in RowPcs \cup {"pr_persist"}
           /\ <<pc'[p], loc'[p]>> # <<pc[p], loc[p]>>
           /\ crashes' = crashes /\ genFails' = genFails) =>
            /\ pc'[p] \in RowPcs \cup {"pr_persist", "pr_count"}
            /\ UNCHANGED <<queue, requeues>>]_vars

\* a job of more than one batch: the first invocation sent the continuation,
\* the last one finalised
C29_Witness ==
  /\ AllIdle
  /\ job.status = "DONE"
  /\ requeues > 0
  /\ queue["process_rows"] = 0
  /\ dups = 0 /\ crashes = 0 /\ earlyReturns = 0

\* ---------------------------------------------------------------------
\* C30: when the time limit is exceeded inside handleProcessRows, no further
\* row of the batch is started: every row not yet started stays PENDING and
\* is counted neither in ok_rows nor in ng_rows, and the next_index this
\* invocation writes is not greater than the smallest row_index among them.
\* ---------------------------------------------------------------------
\* p left its loop with rows of its batch not started
Broke(p) ==
  /\ pc[p] \in {"pr_persist", "pr_count", "pr_final"}
  /\ loc[p].i <= Len(loc[p].list)
NotStarted(p) == {loc[p].list[k] : k \in loc[p].i..Len(loc[p].list)}

C30_TimeGuard ==
  /\ [](\A p \in Procs : Broke(p) =>
          \A idx \in NotStarted(p) :
            /\ IsPending(rows, idx)
            /\ idx \notin ProcessedRows(p))
  /\ [][\A p \in Procs :
          /\ (pc[p] = "pr_loop" /\ pc'[p] = "pr_persist" /\ crashes' = crashes
               /\ loc[p].i <= Len(loc[p].list)) =>
               UNCHANGED <<loc, stores, hsGets, puts, counted, lastRow, queue>>
          /\ (Broke(p) /\ job' # job) =>
               /\ pc[p] = "pr_persist"
               /\ job'.ok_rows + job'.ng_rows =
                    job.ok_rows + job.ng_rows + Cardinality(ProcessedRows(p))
               /\ \A idx \in NotStarted(p) :
                    job'.next_index <= idx /\ counted'[idx] = counted[idx]]_vars

\* the guard fired after the first row of a batch and the invocation has
\* stored its progress
C30_Witness ==
  /\ Broke(1)
  /\ pc[1] = "pr_final"
  /\ loc[1].i = 2
  /\ Len(loc[1].list) = BATCH
  /\ job.next_index = loc[1].list[2]
  /\ loc[1].left >= 2

\* ---------------------------------------------------------------------
\* C31: import/start sends the parse_csv message only after the CSV object
\* is stored and the job record exists with status RUNNING, phase PARSING and
\* all counters 0; handleParseCsv sends the process_rows message only after
\* total_rows is set, the phase is PROCESSING and every row is inserted as
\* PENDING.  So a parse_csv message is never there without the stored object
\* and the job record, and a process_rows message is never there before the
\* rows are: whenever one is waiting or being handled and no handleParseCsv
\* run is waiting or under way, the job has one row per decoded data row.
\* ---------------------------------------------------------------------
Waiting(t) == queue[t] > 0 \/ \E p \in Procs : pc[p] # "idle" /\ loc[p].type = t

C32_DoneAbsorbing == [][job.status = "DONE" => job'.status = "DONE"]_vars

\* ---------------------------------------------------------------------
\* C33: a job that is DONE has counted every row exactly once:
\* ok_rows + ng_rows = total_rows, also after invocations that aborted
\* part-way through a batch and were retried.
\* ---------------------------------------------------------------------
C33_CountersComplete ==
  job.status = "DONE" => job.ok_rows + job.ng_rows = job.total_rows

C35_TerminalStatusFinal ==
  [][\A k \in DOMAIN rows :
       rows[k].status # "PENDING" =>
         k \in DOMAIN rows' /\ rows'[k].status = rows[k].status]_vars

\* ---------------------------------------------------------------------
\* C36: inside a row handleProcessRows stores the artifact first, then
\* upserts the receipt record with status DONE, and marks the row DONE last.
\* So whenever a row is DONE the object receipts/{member_id}/{year}.pdf is
\* in the bucket and a receipt record of the row's (year, member_id) exists,
\* also after an invocation aborted between any two of these steps.
\* ---------------------------------------------------------------------
HasArtifact(store, idx) == PdfKey(RowKey(idx).member_id, RowKey(idx).year) \in store
HasReceipt(store, idx) == \E r \in store : SameKey(r, RowKey(idx))

C36_WriteOrder ==
  /\ [](\A idx \in RowIdx :
          (idx + 1 \in DOMAIN rows /\ RowStatus(idx) = "DONE") =>
            HasArtifact(bucket, idx) /\ HasReceipt(receipts, idx))
  /\ [][\A p \in Procs :
          /\ (pc[p] = "pr_put" /\ pc'[p] = "pr_upsert") =>
               /\ HasArtifact(bucket', CurrentRow(p))
               /\ UNCHANGED <<receipts, rows>>
          /\ (pc[p] = "pr_upsert" /\ pc'[p] = "pr_mark") =>
               /\ HasArtifact(bucket, CurrentRow(p))
               /\ \E r \in receipts' :
                    SameKey(r, RowKey(CurrentRow(p))) /\ r.status = "DONE"
               /\ UNCHANGED <<bucket, rows>>
          /\ (pc[p] = "pr_mark" /\ pc'[p] = "pr_loop") =>
               /\ HasArtifact(bucket, CurrentRow(p))
               /\ HasReceipt(receipts, CurrentRow(p))
               /\ rows'[CurrentRow(p) + 1].status = "DONE"
               /\ UNCHANGED <<bucket, receipts>>]_vars

\* an invocation aborted after the put of a row and before the row was
\* marked; the retry has marked the row DONE
C36_Witness ==
  /\ crashes > 0
  /\ \E idx \in RowIdx :
       /\ idx + 1 \in DOMAIN rows
       /\ RowStatus(idx) = "DONE"
       /\ puts[idx] = 2
       /\ hsGets[idx] = 2
       /\ HasArtifact(bucket, idx)
       /\ \E r \in receipts : SameKey(r, RowKey(idx)) /\ r.status = "DONE"

\* ---------------------------------------------------------------------
\* C37: the queue consumer acknowledges a message exactly when its handler
\* returned without throwing and marks it for retry exactly when the handler
\* threw; a message with an empty job_id or an unknown type is acknowledged
\* and changes no state; and after a message whose handler threw the
\* consumer goes on with the next message of the batch.
\* ---------------------------------------------------------------------
\* the consumer settles the message it handed to a handler
Settles == cons.busy /\ ~cons'.busy

C37_AckOrRetry ==
  /\ [][Settles =>
          /\ cons'.marks[cons.i] = IF crashes > cons.thrown THEN "retry" ELSE "ack"
          /\ cons'.marks[cons.i] = "retry" => queue[cons.msgs[cons.i].type] > 0
          /\ cons'.i = cons.i + 1
          /\ cons'.msgs = cons.msgs
          /\ \A k \in DOMAIN cons.marks : k # cons.i => cons'.marks[k] = cons.marks[k]]_vars
  /\ [][(~cons.busy /\ cons.i <= Len(cons.msgs) /\ cons'.i # cons.i) =>
          /\ ~HasHandler(cons.msgs[cons.i])
          /\ cons'.marks[cons.i] = "ack"
          /\ cons'.i = cons.i + 1
          /\ UNCHANGED <<csv, stores, queue, pc, loc, ghosts>>]_vars
  /\ [](\A k \in DOMAIN cons.marks :
          /\ (k < cons.i) <=> (cons.marks[k] # "none")
          /\ cons.marks[k] = "retry" => HasHandler(cons.msgs[k]))
  /\ [][(cons.busy /\ crashes' > crashes) =>
          /\ pc'[1] = "idle"
          /\ cons' = cons
          /\ queue' = [queue EXCEPT ![cons.msgs[cons.i].type] = @ + 1]]_vars

\* the handler of the first message of a batch threw, and the second message
\* was handled and acknowledged
C37_Witness ==
  /\ Len(cons.msgs) = MaxBatch
  /\ cons.i > Len(cons.msgs)
  /\ cons.marks[1] = "retry"
  /\ cons.marks[2] = "ack"
  /\ HasHandler(cons.msgs[2])

\* ---------------------------------------------------------------------
\* C38: for the HTTP import/continue handler, after any sequence of calls
\* that do not overlap -- calls stopped early by the time guard or by the
\* call budget and calls that ended with an exception included --
\* processed_rows = next_index = ok_rows + ng_rows, next_index <= total_rows,
\* and the job is DONE exactly when next_index >= total_rows.
\* ---------------------------------------------------------------------
C38_ContinueCounters ==
  job.status # "NONE" =>
    /\ job.processed_rows = job.next_index
    /\ job.next_index = job.ok_rows + job.ng_rows
    /\ job.next_index <= job.total_rows
    /\ (job.status = "DONE") <=> (job.next_index >= job.total_rows)

\* a job of several calls is DONE with rows of both kinds; an earlier call
\* had stopped before the end of its range (no range ends at the cursor the
\* last call started from) and a call had ended with an exception
C38_Witness ==
  /\ cont.pc = "idle"
  /\ cont.aborts > 0
  /\ job.status = "DONE"
  /\ job.ok_rows > 0 /\ job.ng_rows > 0
  /\ cont.start % 5 # 0
  /\ cont.start + cont.processed = job.total_rows

\* ---------------------------------------------------------------------
\* C39: for an email job in mode 'unsent', once repeated email/job/continue
\* requests have brought the job to DONE, a send was attempted for every
\* receipt that was an unsent DONE target when the job started: no target is
\* skipped.  A request for a DONE job sends nothing, and a request for a
\* CANCELED job is rejected and sends nothing.
\* ---------------------------------------------------------------------
C39_EmailJobCoverage ==
  /\ [](mail.status = "DONE" => mail.targets \subseteq mail.tried)
  /\ [][mail.status \in {"DONE", "CANCELED"} =>
          /\ mail'.sends = 0
          /\ mail'.answer = IF mail.status = "DONE" THEN "done" ELSE "job_canceled"
          /\ mail'.annual = mail.annual
          /\ mail'.tried = mail.tried
          /\ mail'.status = mail.status]_vars

====
